---------------------------- MODULE Spec2Model ----------------------------
(***************************************************************************)
(* Phish-Shield: the heuristic URL analyzer (backend/app/heuristic_engine) *)
(* and the scan orchestrator with its score fusion (backend/app/api).      *)
(*                                                                         *)
(* A Python str is a sequence of one-character strings.  A character       *)
(* outside ASCII is one element written by its code point ("U+0430").      *)
(* A text built for the response (a reason, a detail) is a sequence of     *)
(* tokens; '; '.join(...) puts the token "; " between the joined parts.    *)
(* A float probability is an integer k standing for k / ProbDen; the       *)
(* arithmetic on it is exact (rounding of IEEE doubles is not modelled).   *)
(* The timestamp of a response (datetime.utcnow()) is left out.            *)
(* urlparse and ipaddress are those of Python 3.11, difflib's              *)
(* SequenceMatcher runs without junk (strings far under 200 characters).   *)
(***************************************************************************)
EXTENDS Integers, Sequences, FiniteSets, TLC

(***************************************************************************)
(* Bounds of the model.                                                    *)
(***************************************************************************)
\* The classifier's probability ranges over 0/ProbDen .. ProbDen/ProbDen.
ProbDen == 16
\* Hash seeds 0..MaxSeed: each gives the protected-domain set an iteration order.
MaxSeed == 1

(***************************************************************************)
(* Characters and str methods.                                             *)
(***************************************************************************)
NonAscii == {"U+0430", "U+2100"}

\* Characters whose NFKC form contains one of / ? # @ : (U+2100 is "a/c").
NfkcUnsafe == {"U+2100"}

Whitespace == {" ", "\t", "\n", "\r"}

Digits == {"0", "1", "2", "3", "4", "5", "6", "7", "8", "9"}

UpperCase ==
    <<"A", "B", "C", "D", "E", "F", "G", "H", "I", "J", "K", "L", "M",
      "N", "O", "P", "Q", "R", "S", "T", "U", "V", "W", "X", "Y", "Z">>

LowerCase ==
    <<"a", "b", "c", "d", "e", "f", "g", "h", "i", "j", "k", "l", "m",
      "n", "o", "p", "q", "r", "s", "t", "u", "v", "w", "x", "y", "z">>

AsciiLetters == {UpperCase[i] : i \in 1..26} \cup {LowerCase[i] : i \in 1..26}

\* str.lower(), one character.
LowerChar(c) ==
    IF \E i \in 1..26 : UpperCase[i] = c
    THEN LowerCase[CHOOSE i \in 1..26 : UpperCase[i] = c]
    ELSE c

\* str.lower()
Lower(s) == [i \in 1..Len(s) |-> LowerChar(s[i])]

\* str.strip()
Strip(s) ==
    LET keep == {i \in 1..Len(s) : s[i] \notin Whitespace}
    IN  IF keep = {} THEN <<>>
        ELSE SubSeq(s, CHOOSE i \in keep : \A j \in keep : i <= j,
                       CHOOSE i \in keep : \A j \in keep : i >= j)

\* str.startswith(p)
StartsWith(s, p) == Len(p) <= Len(s) /\ SubSeq(s, 1, Len(p)) = p

\* str.endswith(p)
EndsWith(s, p) == Len(p) <= Len(s) /\ SubSeq(s, Len(s) - Len(p) + 1, Len(s)) = p

\* p in s
Contains(s, p) ==
    \E i \in 1..(Len(s) - Len(p) + 1) : SubSeq(s, i, i + Len(p) - 1) = p

\* str.count(c), c one character
Count(s, c) == Cardinality({i \in 1..Len(s) : s[i] = c})

\* The first index >= from of a character of cs in s, 0 when there is none.
IndexOf(s, cs, from) ==
    LET hits == {i \in from..Len(s) : s[i] \in cs}
    IN  IF hits = {} THEN 0 ELSE CHOOSE i \in hits : \A j \in hits : i <= j

\* The last index of character c in s, 0 when there is none.
LastIndexOf(s, c) ==
    LET hits == {i \in 1..Len(s) : s[i] = c}
    IN  IF hits = {} THEN 0 ELSE CHOOSE i \in hits : \A j \in hits : i >= j

\* str.split(c): the parts between the occurrences of c (never empty).
RECURSIVE Split(_, _)
Split(s, c) ==
    LET i == IndexOf(s, {c}, 1)
    IN  IF i = 0 THEN <<s>>
        ELSE <<SubSeq(s, 1, i - 1)>> \o Split(SubSeq(s, i + 1, Len(s)), c)

\* sep.join(parts), sep and the parts sequences
RECURSIVE Join(_, _)
Join(parts, sep) ==
    IF parts = <<>> THEN <<>>
    ELSE IF Len(parts) = 1 THEN parts[1]
    ELSE parts[1] \o sep \o Join(Tail(parts), sep)

\* str.replace(fake, real), both one character
Replace(s, fake, real) == [i \in 1..Len(s) |-> IF s[i] = fake THEN real ELSE s[i]]

(***************************************************************************)
(* urllib.parse.urlparse(u).hostname, as HeuristicEngine uses it.          *)
(***************************************************************************)
SchemeChars == AsciiLetters \cup Digits \cup {"+", "-", "."}

\* urlsplit, the scheme: u after its scheme and colon when the text before
\* the first colon is a scheme (a letter, then scheme characters).
AfterScheme(u, colon) ==
    IF /\ colon > 1
       /\ u[1] \in AsciiLetters
       /\ \A j \in 1..(colon - 1) : u[j] \in SchemeChars
    THEN SubSeq(u, colon + 1, Len(u))
    ELSE u

\* urlsplit, _splitnetloc: after '//' the netloc runs to the first / ? or #
\* (delim, 0 when there is none).
NetlocOf(rest, delim) ==
    IF Len(rest) >= 2 /\ rest[1] = "/" /\ rest[2] = "/"
    THEN SubSeq(rest, 3, IF delim = 0 THEN Len(rest) ELSE delim - 1)
    ELSE <<>>

\* _hostinfo: the host between '[' and ']' (cut == 0: no ']').
UpTo(s, cut) == IF cut = 0 THEN s ELSE SubSeq(s, 1, cut - 1)

Bracketed(inner) == UpTo(inner, IndexOf(inner, {"]"}, 1))

HexDigits == Digits \cup {"a", "b", "c", "d", "e", "f", "A", "B", "C", "D", "E", "F"}

\* int(c) of a decimal digit
DigitValue(c) ==
    CHOOSE v \in 0..9 : <<"0", "1", "2", "3", "4", "5", "6", "7", "8", "9">>[v + 1] = c

\* ipaddress.IPv4Address._parse_octet: one to three decimal digits, no
\* leading zero, at most 255.
IsOctet(o) ==
    /\ Len(o) \in 1..3
    /\ \A i \in 1..Len(o) : o[i] \in Digits
    /\ Len(o) > 1 => o[1] # "0"
    /\ Len(o) = 3 => 100 * DigitValue(o[1]) + 10 * DigitValue(o[2]) + DigitValue(o[3]) <= 255

OctetsOk(octets) == Len(octets) = 4 /\ \A i \in 1..4 : IsOctet(octets[i])

\* ipaddress.IPv4Address(s) is accepted
IsIPv4(s) == OctetsOk(Split(s, "."))

\* ipaddress.IPv6Address._parse_hextet: one to four hexadecimal digits.
IsHextet(h) == Len(h) \in 1..4 /\ \A i \in 1..Len(h) : h[i] \in HexDigits

\* _ip_int_from_string with a '::' at part k: a leading or trailing ':' is
\* part of the '::', at least one hextet is left out, the others are hextets.
SkipAt(parts, k) ==
    /\ parts[1] = <<>> => k = 2
    /\ parts[Len(parts)] = <<>> => k = Len(parts) - 1
    /\ (IF parts[1] = <<>> THEN 0 ELSE k - 1)
           + (IF parts[Len(parts)] = <<>> THEN 0 ELSE Len(parts) - k) <= 7
    /\ \A i \in 1..Len(parts) : parts[i] # <<>> => IsHextet(parts[i])

\* _ip_int_from_string: at most one '::' (skips: the empty inner parts);
\* without it, eight hextets.
SkipOk(parts, skips) ==
    IF skips = {}
    THEN Len(parts) = 8 /\ \A i \in 1..8 : IsHextet(parts[i])
    ELSE Cardinality(skips) = 1 /\ SkipAt(parts, CHOOSE k \in skips : TRUE)

HextetsOk(parts) ==
    /\ Len(parts) <= 9
    /\ SkipOk(parts, {i \in 2..(Len(parts) - 1) : parts[i] = <<>>})

\* _ip_int_from_string: at least three parts; an IPv4 suffix stands for two
\* hextets.
IPv6PartsOk(parts) ==
    /\ Len(parts) >= 3
    /\ IF \E i \in 1..Len(parts[Len(parts)]) : parts[Len(parts)][i] = "."
       THEN /\ IsIPv4(parts[Len(parts)])
            /\ HextetsOk(SubSeq(parts, 1, Len(parts) - 1) \o <<<<"0">>, <<"0">>>>)
       ELSE HextetsOk(parts)

\* ipaddress.IPv6Address(s) is accepted; pct is the place of the first '%'
\* (_split_scope_id: the scope id after it is not empty and holds no '%').
IsIPv6(s, pct) ==
    IF pct = 0 THEN IPv6PartsOk(Split(s, ":"))
    ELSE /\ pct < Len(s)
         /\ \A i \in (pct + 1)..Len(s) : s[i] # "%"
         /\ IPv6PartsOk(Split(SubSeq(s, 1, pct - 1), ":"))

\* _check_bracketed_host: an IPvFuture address (v, hexadecimal digits, a
\* dot, something) or an IPv6 address; an IPv4 address is refused.
BracketedHostOk(h) ==
    IF h # <<>> /\ h[1] = "v"
    THEN \E d \in 3..(Len(h) - 1) :
            h[d] = "." /\ \A i \in 2..(d - 1) : h[i] \in HexDigits
    ELSE IsIPv6(h, IndexOf(h, {"%"}, 1))

\* urlsplit checks what lies between the first '[' (at ob) and the next ']'.
BracketsOk(netloc, ob) == BracketedHostOk(Bracketed(SubSeq(netloc, ob + 1, Len(netloc))))

\* urlsplit, the ValueError: brackets that do not balance in the netloc,
\* brackets around what is no IPv6 or IPvFuture address, or a netloc that
\* NFKC normalization changes into one holding a delimiter.
CheckNetloc(netloc) ==
    IF \/ /\ \E i \in 1..Len(netloc) : netloc[i] = "["
          /\ \A i \in 1..Len(netloc) : netloc[i] # "]"
       \/ /\ \E i \in 1..Len(netloc) : netloc[i] = "]"
          /\ \A i \in 1..Len(netloc) : netloc[i] # "["
       \/ /\ \E i \in 1..Len(netloc) : netloc[i] = "["
          /\ \E i \in 1..Len(netloc) : netloc[i] = "]"
          /\ ~BracketsOk(netloc, IndexOf(netloc, {"["}, 1))
       \/ \E i \in 1..Len(netloc) : netloc[i] \in NfkcUnsafe
    THEN [raised |-> TRUE, netloc |-> <<>>]
    ELSE [raised |-> FALSE, netloc |-> netloc]

NetlocFrom(rest) == CheckNetloc(NetlocOf(rest, IndexOf(rest, {"/", "?", "#"}, 3)))

\* urlsplit removes tab, carriage return and line feed from the url.
RemoveUnsafe(u) == SelectSeq(u, LAMBDA c : c \notin {"\t", "\r", "\n"})

SplitClean(u) == NetlocFrom(AfterScheme(u, IndexOf(u, {":"}, 1)))

\* urlsplit(u): [raised, netloc]
UrlSplit(u) == SplitClean(RemoveUnsafe(u))

\* _hostinfo: the netloc after its last '@'.
HostInfo(netloc) == SubSeq(netloc, LastIndexOf(netloc, "@") + 1, Len(netloc))

\* _hostinfo: the bracketed host when there is a '[' (at ob), else the text
\* before the first ':'.
HostPart(hostinfo, ob) ==
    IF ob > 0 THEN Bracketed(SubSeq(hostinfo, ob + 1, Len(hostinfo)))
    ELSE UpTo(hostinfo, IndexOf(hostinfo, {":"}, 1))

\* hostname: lower-cased up to a zone id (from '%', at pct).
LowerHost(host, pct) ==
    IF pct = 0 THEN Lower(host)
    ELSE Lower(SubSeq(host, 1, pct - 1)) \o SubSeq(host, pct, Len(host))

HostOfInfo(hostinfo) == HostPart(hostinfo, IndexOf(hostinfo, {"["}, 1))

LowerHostOf(host) == LowerHost(host, IndexOf(host, {"%"}, 1))

\* SplitResult.hostname or ''
HostnameOf(netloc) == LowerHostOf(HostOfInfo(HostInfo(netloc)))

HttpPrefix == <<"h", "t", "t", "p">>

HttpScheme == <<"h", "t", "t", "p", ":", "/", "/">>

HostnameResult(split) ==
    [raised   |-> split.raised,
     hostname |-> IF split.raised THEN <<>> ELSE HostnameOf(split.netloc)]

\* urlparse(url if url.startswith('http') else 'http://' + url), then
\* parsed.hostname or '': [raised, hostname].
ParseHostname(url) ==
    HostnameResult(UrlSplit(IF StartsWith(url, HttpPrefix) THEN url ELSE HttpScheme \o url))

(***************************************************************************)
(* HeuristicEngine.__init__: the static configuration.                     *)
(***************************************************************************)
\* legitimate_domains, in the order the set literal lists its elements.
LegitListed ==
    <<"google.com", "facebook.com", "amazon.com", "paypal.com",
      "microsoft.com", "apple.com", "netflix.com", "instagram.com",
      "twitter.com", "linkedin.com", "ebay.com", "walmart.com",
      "chase.com", "bankofamerica.com", "wellsfargo.com", "github.com",
      "dropbox.com", "yahoo.com", "outlook.com">>

(* The characters of each protected domain name. *)
Chars ==
    ("google.com" :> <<"g", "o", "o", "g", "l", "e", ".", "c", "o", "m">>)
    @@ ("facebook.com" :> <<"f", "a", "c", "e", "b", "o", "o", "k", ".", "c", "o", "m">>)
    @@ ("amazon.com" :> <<"a", "m", "a", "z", "o", "n", ".", "c", "o", "m">>)
    @@ ("paypal.com" :> <<"p", "a", "y", "p", "a", "l", ".", "c", "o", "m">>)
    @@ ("microsoft.com" :> <<"m", "i", "c", "r", "o", "s", "o", "f", "t", ".", "c", "o", "m">>)
    @@ ("apple.com" :> <<"a", "p", "p", "l", "e", ".", "c", "o", "m">>)
    @@ ("netflix.com" :> <<"n", "e", "t", "f", "l", "i", "x", ".", "c", "o", "m">>)
    @@ ("instagram.com" :> <<"i", "n", "s", "t", "a", "g", "r", "a", "m", ".", "c", "o", "m">>)
    @@ ("twitter.com" :> <<"t", "w", "i", "t", "t", "e", "r", ".", "c", "o", "m">>)
    @@ ("linkedin.com" :> <<"l", "i", "n", "k", "e", "d", "i", "n", ".", "c", "o", "m">>)
    @@ ("ebay.com" :> <<"e", "b", "a", "y", ".", "c", "o", "m">>)
    @@ ("walmart.com" :> <<"w", "a", "l", "m", "a", "r", "t", ".", "c", "o", "m">>)
    @@ ("chase.com" :> <<"c", "h", "a", "s", "e", ".", "c", "o", "m">>)
    @@ ("bankofamerica.com" :> <<"b", "a", "n", "k", "o", "f", "a", "m", "e", "r", "i", "c", "a", ".", "c", "o", "m">>)
    @@ ("wellsfargo.com" :> <<"w", "e", "l", "l", "s", "f", "a", "r", "g", "o", ".", "c", "o", "m">>)
    @@ ("github.com" :> <<"g", "i", "t", "h", "u", "b", ".", "c", "o", "m">>)
    @@ ("dropbox.com" :> <<"d", "r", "o", "p", "b", "o", "x", ".", "c", "o", "m">>)
    @@ ("yahoo.com" :> <<"y", "a", "h", "o", "o", ".", "c", "o", "m">>)
    @@ ("outlook.com" :> <<"o", "u", "t", "l", "o", "o", "k", ".", "c", "o", "m">>)

suspicious_keywords ==
    <<<<"v", "e", "r", "i", "f", "y">>,
      <<"a", "c", "c", "o", "u", "n", "t">>,
      <<"u", "p", "d", "a", "t", "e">>,
      <<"s", "e", "c", "u", "r", "e">>,
      <<"b", "a", "n", "k", "i", "n", "g">>,
      <<"s", "i", "g", "n", "i", "n">>,
      <<"l", "o", "g", "i", "n">>,
      <<"c", "o", "n", "f", "i", "r", "m">>,
      <<"s", "u", "s", "p", "e", "n", "d">>,
      <<"u", "n", "l", "o", "c", "k">>,
      <<"v", "a", "l", "i", "d", "a", "t", "e">>,
      <<"r", "e", "s", "t", "o", "r", "e">>,
      <<"r", "e", "c", "o", "v", "e", "r">>,
      <<"a", "l", "e", "r", "t">>,
      <<"u", "r", "g", "e", "n", "t">>,
      <<"l", "i", "m", "i", "t", "e", "d">>,
      <<"u", "n", "u", "s", "u", "a", "l">>,
      <<"a", "c", "t", "i", "v", "i", "t", "y">>,
      <<"s", "e", "c", "u", "r", "i", "t", "y", "-", "c", "h", "e", "c", "k">>>>

suspicious_tlds ==
    <<<<".", "t", "k">>,
      <<".", "m", "l">>,
      <<".", "g", "a">>,
      <<".", "c", "f">>,
      <<".", "g", "q">>,
      <<".", "p", "w">>,
      <<".", "c", "c">>,
      <<".", "t", "o", "p">>,
      <<".", "x", "y", "z">>,
      <<".", "c", "l", "u", "b">>,
      <<".", "w", "o", "r", "k">>,
      <<".", "c", "l", "i", "c", "k">>>>

\* self.legitimate_domains, the set.
legitimate_domains == {LegitListed[i] : i \in 1..Len(LegitListed)}

\* char_substitutions, in the dict's (insertion) order: <<fake, real>>.
char_substitutions ==
    <<<<"0", "o">>, <<"1", "i">>, <<"3", "e">>, <<"5", "s">>,
      <<"8", "b">>, <<"@", "a">>, <<"$", "s">>>>

\* Python gives a set of str an iteration order that depends on the
\* process's hash seed (PYTHONHASHSEED, random by default).  Seed 0 stands
\* for the listed order; the other seeds rotate it, the odd ones reversed.
HashSeeds == 0..MaxSeed

IterationOrder(seed) ==
    LET n   == Len(LegitListed)
        rot == [i \in 1..n |-> LegitListed[((i - 1 + seed) % n) + 1]]
    IN  IF seed % 2 = 0 THEN rot ELSE [i \in 1..n |-> rot[n + 1 - i]]

None == "None"

(***************************************************************************)
(* difflib.SequenceMatcher(None, a, b).ratio() > 0.8                       *)
(***************************************************************************)
\* The length of the common run of a from i and b from j (below ahi, bhi).
RECURSIVE RunLen(_, _, _, _, _, _)
RunLen(a, b, i, j, ahi, bhi) ==
    IF i >= ahi \/ j >= bhi THEN 0
    ELSE IF a[i] # b[j] THEN 0
    ELSE 1 + RunLen(a, b, i + 1, j + 1, ahi, bhi)

\* find_longest_match(alo, ahi, blo, bhi): the longest block a[i..i+size) =
\* b[j..j+size); of the longest ones the one starting earliest in a, and of
\* those the one starting earliest in b.  (No junk: isjunk is None, and
\* autojunk needs 200 elements.)
LongestSize(a, b, alo, ahi, blo, bhi) ==
    CHOOSE k \in 0..(ahi - alo) :
        /\ \A i \in alo..(ahi - 1) : \A j \in blo..(bhi - 1) :
              RunLen(a, b, i, j, ahi, bhi) <= k
        /\ \/ k = 0
           \/ \E i \in alo..(ahi - 1) : \E j \in blo..(bhi - 1) :
                 RunLen(a, b, i, j, ahi, bhi) = k

EarliestInA(a, b, alo, ahi, blo, bhi, size) ==
    CHOOSE i \in alo..(ahi - 1) :
        /\ \E j \in blo..(bhi - 1) : RunLen(a, b, i, j, ahi, bhi) = size
        /\ \A i2 \in alo..(i - 1) : \A j \in blo..(bhi - 1) :
              RunLen(a, b, i2, j, ahi, bhi) # size

EarliestInB(a, b, i, ahi, blo, bhi, size) ==
    CHOOSE j \in blo..(bhi - 1) :
        /\ RunLen(a, b, i, j, ahi, bhi) = size
        /\ \A j2 \in blo..(j - 1) : RunLen(a, b, i, j2, ahi, bhi) # size

BlockInB(a, b, i, ahi, blo, bhi, size) ==
    [i |-> i, j |-> EarliestInB(a, b, i, ahi, blo, bhi, size), size |-> size]

BlockOfSize(a, b, alo, ahi, blo, bhi, size) ==
    IF size = 0 THEN [i |-> alo, j |-> blo, size |-> 0]
    ELSE BlockInB(a, b, EarliestInA(a, b, alo, ahi, blo, bhi, size), ahi, blo, bhi, size)

FindLongestMatch(a, b, alo, ahi, blo, bhi) ==
    BlockOfSize(a, b, alo, ahi, blo, bhi, LongestSize(a, b, alo, ahi, blo, bhi))

\* get_matching_blocks: the sum of the sizes of the blocks found by taking
\* the longest match and recurring on the pieces left and right of it.
RECURSIVE MatchCount(_, _, _, _, _, _)
MatchAround(a, b, alo, ahi, blo, bhi, m) ==
    IF m.size = 0 THEN 0
    ELSE m.size
         + MatchCount(a, b, alo, m.i, blo, m.j)
         + MatchCount(a, b, m.i + m.size, ahi, m.j + m.size, bhi)

MatchCount(a, b, alo, ahi, blo, bhi) ==
    IF alo >= ahi \/ blo >= bhi THEN 0
    ELSE MatchAround(a, b, alo, ahi, blo, bhi, FindLongestMatch(a, b, alo, ahi, blo, bhi))

\* The ratio test with >= in the place of >.
RatioAbove80_inclusive(matches, length) ==
    IF length = 0 THEN TRUE ELSE 10 * matches >= 4 * length

\* ratio() = 2.0 * matches / (len(a) + len(b)), 1.0 for two empty strings;
\* ratio() > 0.8, in exact arithmetic.
RatioAbove80(matches, length) ==
    IF length = 0 THEN TRUE ELSE 10 * matches > 4 * length

SimilarityAbove80(a, b) ==
    RatioAbove80(MatchCount(a, b, 1, Len(a) + 1, 1, Len(b) + 1), Len(a) + Len(b))

(***************************************************************************)
(* HeuristicEngine: the nine checks.                                       *)
(***************************************************************************)
\* re.search(r'(?:http[s]?://)?(\d{1,3}\.){3}\d{1,3}', url): the optional
\* prefix matches empty, so the search finds three groups of one to three
\* digits and a dot, then a digit, anywhere in url.
has_ip_address(url) ==
    LET DigitsAt(i, n) == /\ i + n - 1 <= Len(url)
                          /\ \A k \in i..(i + n - 1) : url[k] \in Digits
        GroupAt(i, n)  == /\ DigitsAt(i, n)
                          /\ i + n <= Len(url)
                          /\ url[i + n] = "."
    IN  \E i \in 1..Len(url) : \E n1, n2, n3 \in 1..3 :
            /\ GroupAt(i, n1)
            /\ GroupAt(i + n1 + 1, n2)
            /\ GroupAt(i + n1 + n2 + 2, n3)
            /\ DigitsAt(i + n1 + n2 + n3 + 3, 1)

\* max(0, len(parts) - 2)
SubdomainsOf(parts) == IF Len(parts) - 2 > 0 THEN Len(parts) - 2 ELSE 0

CountSubdomainsOf(parsed) ==
    IF parsed.raised THEN 0 ELSE SubdomainsOf(Split(parsed.hostname, "."))

\* _count_subdomains: the bare except turns a parse failure into 0.
count_subdomains(url) == CountSubdomainsOf(ParseHostname(url))

\* The loop of _check_typosquatting over char_substitutions.
RECURSIVE Normalize(_, _)
Normalize(domain, n) ==
    IF n = 0 THEN domain
    ELSE Replace(Normalize(domain, n - 1),
                 char_substitutions[n][1], char_substitutions[n][2])

\* The domain without subdomains: the last two labels of the hostname.
RegistrableDomain(hostname, parts) ==
    IF Len(parts) >= 2
    THEN Join(SubSeq(parts, Len(parts) - 1, Len(parts)), <<".">>)
    ELSE hostname

\* The first element of order (a sequence) among the indices in similar.
FirstOf(order, similar) ==
    IF similar = {} THEN None
    ELSE order[CHOOSE i \in similar : \A j \in similar : i <= j]

\* The similarity loop: the first protected domain, in the set's iteration
\* order, whose ratio to domain is above 0.8.
FirstSimilar(domain, order) ==
    FirstOf(order, {i \in 1..Len(order) : SimilarityAbove80(domain, Chars[order[i]])})

\* _check_typosquatting without its exact match: the match after
\* substitution, then the similarity loop.
MatchDomain_unlisted(domain, normalized, seed) ==
    IF \E d \in legitimate_domains : Chars[d] = normalized
    THEN CHOOSE d \in legitimate_domains : Chars[d] = normalized
    ELSE FirstSimilar(domain, IterationOrder(seed))

\* _check_typosquatting without its substitution step: the exact match,
\* then the similarity loop.
MatchDomain_unsubstituted(domain, normalized, seed) ==
    IF \E d \in legitimate_domains : Chars[d] = domain THEN None
    ELSE FirstSimilar(domain, IterationOrder(seed))

\* The exact match, the match after substitution, then the similarity loop.
MatchDomain(domain, normalized, seed) ==
    IF \E d \in legitimate_domains : Chars[d] = domain THEN None
    ELSE IF \E d \in legitimate_domains : Chars[d] = normalized
         THEN CHOOSE d \in legitimate_domains : Chars[d] = normalized
    ELSE FirstSimilar(domain, IterationOrder(seed))

MatchNormalized(domain, seed) ==
    MatchDomain(domain, Normalize(domain, Len(char_substitutions)), seed)

TyposquattingOf(parsed, seed) ==
    IF parsed.raised THEN None
    ELSE MatchNormalized(RegistrableDomain(parsed.hostname, Split(parsed.hostname, ".")),
                         seed)

\* _check_typosquatting: the protected domain impersonated, or None; the
\* bare except turns a parse failure into None.
check_typosquatting(url, seed) == TyposquattingOf(ParseHostname(url), seed)

\* _count_suspicious_keywords
count_suspicious_keywords(url) ==
    Cardinality({i \in 1..Len(suspicious_keywords) : Contains(url, suspicious_keywords[i])})

\* _has_suspicious_tld
has_suspicious_tld(url) ==
    \E i \in 1..Len(suspicious_tlds) :
        \/ EndsWith(url, suspicious_tlds[i])
        \/ Contains(url, suspicious_tlds[i] \o <<"/">>)

HomographOf(parsed) ==
    IF parsed.raised THEN [raised |-> TRUE, result |-> FALSE]
    ELSE [raised |-> FALSE,
          result |-> \E i \in 1..Len(parsed.hostname) : parsed.hostname[i] \in NonAscii]

\* _check_homograph: [raised, result].  url.encode('ascii') fails on a
\* character above 127; the urlparse of the handler is outside any try.
check_homograph(url) ==
    IF \A i \in 1..Len(url) : url[i] \notin NonAscii
    THEN [raised |-> FALSE, result |-> FALSE]
    ELSE HomographOf(ParseHostname(url))

\* check_url without its "confidence = min(confidence, 100)".
cap_confidence_none(confidence) == confidence

\* confidence = min(confidence, 100)
cap_confidence(confidence) == IF confidence < 100 THEN confidence ELSE 100

\* is_suspicious with > in the place of >=.
is_suspicious_above(confidence) == confidence > 40

\* is_suspicious decided on a threshold of 50, that of the status.
is_suspicious_at_50(confidence) == confidence >= 50

\* is_suspicious = confidence >= 40
is_suspicious(confidence) == confidence >= 40

\* The scoring of check_url on the findings of its nine checks:
\* [raised, is_suspicious, reason, confidence].  raised is the
\* exception _check_homograph lets through; the other fields are the tuple
\* returned.
Score(has_ip, subdomain_count, typo_result, keyword_count, bad_tld, has_at, hyphen_count, length, homograph) ==
    LET c1 == IF has_ip THEN 30 ELSE 0
        r1 == IF has_ip
              THEN <<<<"Contains IP address instead of domain name">>>> ELSE <<>>
        c2 == c1 + (IF subdomain_count >= 3 THEN 20 ELSE 0)
        r2 == r1 \o (IF subdomain_count >= 3
                     THEN <<<<"Suspicious number of subdomains (",
                              ToString(subdomain_count), ")">>>>
                     ELSE <<>>)
        c3 == c2 + (IF typo_result # None THEN 40 ELSE 0)
        r3 == r2 \o (IF typo_result # None
                     THEN <<<<"Possible typosquatting of ", typo_result>>>> ELSE <<>>)
        c4 == c3 + (IF keyword_count >= 2 THEN 25
                    ELSE IF keyword_count = 1 THEN 10 ELSE 0)
        r4 == r3 \o (IF keyword_count >= 2
                     THEN <<<<"Contains ", ToString(keyword_count),
                              " suspicious keywords">>>>
                     ELSE IF keyword_count = 1
                     THEN <<<<"Contains suspicious keyword">>>> ELSE <<>>)
        c5 == c4 + (IF bad_tld THEN 15 ELSE 0)
        r5 == r4 \o (IF bad_tld THEN <<<<"Uses suspicious top-level domain">>>> ELSE <<>>)
        c6 == c5 + (IF has_at THEN 35 ELSE 0)
        r6 == r5 \o (IF has_at
                     THEN <<<<"Contains @ symbol (potential domain masking)">>>> ELSE <<>>)
        c7 == c6 + (IF hyphen_count >= 4 THEN 15 ELSE 0)
        r7 == r6 \o (IF hyphen_count >= 4
                     THEN <<<<"Excessive hyphens (", ToString(hyphen_count), ")">>>>
                     ELSE <<>>)
        c8 == c7 + (IF length > 100 THEN 10 ELSE 0)
        r8 == r7 \o (IF length > 100 THEN <<<<"Unusually long URL">>>> ELSE <<>>)
        c9 == c8 + (IF homograph.result THEN 30 ELSE 0)
        r9 == r8 \o (IF homograph.result
                     THEN <<<<"Possible homograph attack (lookalike characters)">>>>
                     ELSE <<>>)
        confidence == cap_confidence(c9)
    IN  IF homograph.raised
        THEN [raised |-> TRUE, is_suspicious |-> FALSE, reason |-> <<>>, confidence |-> 0]
        ELSE [raised        |-> FALSE,
              is_suspicious |-> is_suspicious(confidence),
              reason        |-> IF r9 # <<>> THEN Join(r9, <<"; ">>)
                                ELSE <<"No suspicious patterns detected">>,
              confidence    |-> confidence]

\* check_url that returns after the IP check when it triggers.
Checks_early_exit(url, seed) ==
    IF has_ip_address(url)
    THEN Score(TRUE, 0, None, 0, FALSE, FALSE, 0, 0, [raised |-> FALSE, result |-> FALSE])
    ELSE Score(FALSE, count_subdomains(url), check_typosquatting(url, seed),
               count_suspicious_keywords(url), has_suspicious_tld(url),
               \E i \in 1..Len(url) : url[i] = "@", Count(url, "-"), Len(url),
               check_homograph(url))

\* The findings of the nine checks on the lower-cased, stripped url.
Checks(url, seed) ==
    Score(has_ip_address(url), count_subdomains(url), check_typosquatting(url, seed),
          count_suspicious_keywords(url), has_suspicious_tld(url),
          \E i \in 1..Len(url) : url[i] = "@", Count(url, "-"), Len(url),
          check_homograph(url))

\* check_url
check_url(rawurl, seed) == Checks(Strip(Lower(rawurl)), seed)

(***************************************************************************)
(* The URLs scanned: request.url.                                          *)
(***************************************************************************)
U_google ==
    <<"h", "t", "t", "p", "s", ":", "/", "/", "w", "w", "w", ".", "g", "o", "o", "g", "l", "e",
      ".", "c", "o", "m">>
U_iplogin ==
    <<"h", "t", "t", "p", ":", "/", "/", "1", "9", "2", ".", "1", "6", "8", ".", "1", ".", "1",
      "/", "l", "o", "g", "i", "n">>
U_paypalverify ==
    <<"p", "a", "y", "p", "a", "l", "-", "v", "e", "r", "i", "f", "y", ".", "t", "k">>
U_apl ==
    <<"a", "p", "l", ".", "c", "o", "m">>
U_g00gle ==
    <<"h", "t", "t", "p", ":", "/", "/", "g", "0", "0", "g", "l", "e", ".", "c", "o", "m">>
U_bracket_cyr ==
    <<"h", "t", "t", "p", ":", "/", "/", "[", "U+0430", "p", "p", "l", "e", ".", "c", "o", "m">>
U_bracket ==
    <<"h", "t", "t", "p", ":", "/", "/", "[", "a", "b", "c">>
U_cyr_apple ==
    <<"h", "t", "t", "p", ":", "/", "/", "U+0430", "p", "p", "l", "e", ".", "c", "o", "m", "/">>
U_upper ==
    <<" ", "H", "T", "T", "P", ":", "/", "/", "U", "s", "e", "r", "@", "S", "e", "c", "u", "r",
      "e", "-", "L", "o", "g", "i", "n", ".", "E", "x", "a", "m", "p", "l", "e", ".", "T", "K",
      "/", " ">>
U_allnine ==
    <<"h", "t", "t", "p", ":", "/", "/", "u", "s", "e", "r", "@", "a", ".", "b", ".", "c", ".",
      "p", "U+0430", "y", "p", "a", "l", ".", "c", "o", "m", "/", "1", ".", "1", ".", "1", ".",
      "1", "/", "v", "e", "r", "i", "f", "y", "-", "l", "o", "g", "i", "n", "-", "-", "-", "-",
      ".", "t", "k", "/", "x", "x", "x", "x", "x", "x", "x", "x", "x", "x", "x", "x", "x", "x",
      "x", "x", "x", "x", "x", "x", "x", "x", "x", "x", "x", "x", "x", "x", "x", "x", "x", "x",
      "x", "x", "x", "x", "x", "x", "x", "x", "x", "x", "x", "x", "x", "x", "x", "x", "x", "x">>
U_httpbin ==
    <<"h", "t", "t", "p", "b", "i", "n", ".", "o", "r", "g", ".", "e", "v", "i", "l", ".", "e",
      "x", "a", "m", "p", "l", "e", ".", "t", "k">>
U_pathtld ==
    <<"h", "t", "t", "p", ":", "/", "/", "e", "x", "a", "m", "p", "l", "e", ".", "c", "o", "m",
      "/", "a", ".", "t", "k">>
U_porttld ==
    <<"h", "t", "t", "p", ":", "/", "/", "e", "v", "i", "l", ".", "t", "k", ":", "8", "0", "8",
      "0", "/", "x">>
U_userinfo ==
    <<"h", "t", "t", "p", ":", "/", "/", "u", "s", "e", "r", ":", "p", "U+0430", "s", "s", "@",
      "e", "x", "a", "m", "p", "l", "e", ".", "c", "o", "m", "/">>
U_subs ==
    <<"h", "t", "t", "p", ":", "/", "/", "a", ".", "b", ".", "c", ".", "d", ".", "e", "x", "a",
      "m", "p", "l", "e", ".", "c", "o", "m">>
U_hyphens ==
    <<"h", "t", "t", "p", ":", "/", "/", "a", "-", "b", "-", "c", "-", "d", "-", "e", ".", "e",
      "x", "a", "m", "p", "l", "e", ".", "c", "o", "m">>
U_nfkc ==
    <<"U+2100", ".", "c", "o", "m">>
U_gaagle ==
    <<"g", "a", "a", "g", "l", "e", ".", "c", "o", "m">>
U_ipv6 ==
    <<"h", "t", "t", "p", ":", "/", "/", "[", ":", ":", "1", "]", ":", "8", "0", "8", "0", "/",
      "l", "o", "g", "i", "n">>
U_bracketed ==
    <<"h", "t", "t", "p", ":", "/", "/", "[", "a", "b", "c", "]", "/">>
U_at_bracket_cyr ==
    <<"h", "t", "t", "p", ":", "/", "/", "u", "s", "e", "r", "@", "[", "U+0430", "p", "p", "l",
      "e", ".", "c", "o", "m">>
U_sub_paypal ==
    <<"h", "t", "t", "p", ":", "/", "/", "a", ".", "b", ".", "p", "a", "y", "p", "a", "l", ".",
      "c", "o", "m", "/">>
U_ipsignin ==
    <<"h", "t", "t", "p", ":", "/", "/", "1", "0", ".", "0", ".", "0", ".", "5", "/", "s", "i",
      "g", "n", "i", "n">>
U_http_cyr ==
    <<"h", "t", "t", "p", ".", "U+0430", "p", "p", "l", "e", ".", "c", "o", "m">>
U_dollar ==
    <<"m", "1", "c", "r", "o", "$", "o", "f", "t", ".", "c", "o", "m">>
U_localhost ==
    <<"h", "t", "t", "p", ":", "/", "/", "l", "o", "c", "a", "l", "h", "o", "s", "t", "/">>
U_del ==
    <<"h", "t", "t", "p", ":", "/", "/", "e", "x", "a", "U+007F", "m", "p", "l", "e", ".", "c",
      "o", "m", "/">>
U_cyr_path ==
    <<"h", "t", "t", "p", ":", "/", "/", "e", "x", "a", "m", "p", "l", "e", ".", "c", "o", "m",
      "/", "p", "U+0430", "t", "h">>

URLS ==
    {U_google, U_iplogin, U_paypalverify, U_apl,
     U_g00gle, U_bracket_cyr, U_bracket, U_cyr_apple,
     U_upper, U_allnine, U_httpbin, U_pathtld,
     U_porttld, U_userinfo, U_subs, U_hyphens,
     U_nfkc, U_gaagle, U_ipv6, U_bracketed,
     U_at_bracket_cyr, U_sub_paypal, U_ipsignin, U_http_cyr,
     U_dollar, U_localhost, U_del, U_cyr_path}

(***************************************************************************)
(* URLs for the feature extractors, beside the URLs scanned.               *)
(***************************************************************************)
F_verify ==
    <<"h", "t", "t", "p", "s", ":", "/", "/", "w", "w", "w", ".", "e", "x", "a", "m", "p", "l",
      "e", ".", "c", "o", "m", "/", "t", "e", "s", "t", "?", "i", "d", "=", "1", "2", "3", "#",
      "s", "e", "c", "t", "i", "o", "n">>
F_bare_port ==
    <<"e", "x", "a", "m", "p", "l", "e", ".", "c", "o", "m", ":", "8", "0", "8", "0">>
F_colon_path ==
    <<"h", "t", "t", "p", ":", "/", "/", "e", "x", "a", "m", "p", "l", "e", ".", "c", "o", "m",
      "/", "a", ":", "b">>
F_port_range ==
    <<"h", "t", "t", "p", ":", "/", "/", "e", "x", "a", "m", "p", "l", "e", ".", "c", "o", "m",
      ":", "9", "9", "9", "9", "9">>
F_port_only ==
    <<"h", "t", "t", "p", ":", "/", "/", "e", "x", "a", "m", "p", "l", "e", ".", "c", "o", "m",
      ":", "8", "0">>
F_empty_port ==
    <<"h", "t", "t", "p", ":", "/", "/", "e", "x", "a", "m", "p", "l", "e", ".", "c", "o", "m",
      ":", "/">>
F_underscore ==
    <<"h", "t", "t", "p", ":", "/", "/", "m", "y", "_", "s", "i", "t", "e", ".", "e", "x", "a",
      "m", "p", "l", "e", ".", "c", "o", "m", "/", "a", "_", "b", "?", "x", "=", "1">>
F_nan ==
    <<"n", "a", "n">>

FeatureUrls ==
    URLS \cup {F_verify, F_bare_port, F_colon_path, F_port_range,
     F_port_only, F_empty_port, F_underscore, F_nan}

(***************************************************************************)
(* The two feature extractors: URLFeatureExtractor of app/feature_extractor *)
(* (serving) and URLFeatureExtractor of ml_training/train_model (training). *)
(***************************************************************************)
\* re.search(r'(\d{1,3}\.){3}\d{1,3}', url): the pattern of the heuristic
\* engine without its optional prefix, which matches the same texts.
has_ip(url) == IF has_ip_address(url) THEN 1 ELSE 0

\* sum(c.isdigit() for c in url): no character of the URLs is a digit
\* outside ASCII.
digit_count(url) == Cardinality({i \in 1..Len(url) : url[i] \in Digits})

\* The characters of the URLs for which str.isalpha() holds.
Alpha == AsciiLetters \cup {"U+0430"}

\* sum(c.isalpha() for c in url)
letter_count(url) == Cardinality({i \in 1..Len(url) : url[i] \in Alpha})

HttpsScheme == <<"h", "t", "t", "p", "s", ":", "/", "/">>

\* The features both extractors compute from the text of the url alone.
TextFeatures(url) ==
    [url_length       |-> Len(url),
     dot_count        |-> Count(url, "."),
     at_count         |-> Count(url, "@"),
     has_ip           |-> has_ip(url),
     hyphen_count     |-> Count(url, "-"),
     underscore_count |-> Count(url, "_"),
     slash_count      |-> Count(url, "/"),
     question_count   |-> Count(url, "?"),
     equals_count     |-> Count(url, "="),
     is_https         |-> IF StartsWith(url, HttpsScheme) THEN 1 ELSE 0,
     digit_count      |-> digit_count(url),
     letter_count     |-> letter_count(url),
     has_fragment     |-> IF Count(url, "#") > 0 THEN 1 ELSE 0]

\* The text after sep in s, empty when s has no sep (at == 0).
After(s, at) == IF at = 0 THEN <<>> ELSE SubSeq(s, at + 1, Len(s))

\* _hostinfo, the port: what follows the first ':' after the bracketed
\* host when there is a '[' (at ob), else what follows the first ':'.
PortPart(hostinfo, ob) ==
    IF ob > 0
    THEN LET inner == SubSeq(hostinfo, ob + 1, Len(hostinfo))
             rest  == After(inner, IndexOf(inner, {"]"}, 1))
         IN  After(rest, IndexOf(rest, {":"}, 1))
    ELSE After(hostinfo, IndexOf(hostinfo, {":"}, 1))

PortOfInfo(hostinfo) == PortPart(hostinfo, IndexOf(hostinfo, {"["}, 1))

\* int(port, 10) of a text of decimal digits
RECURSIVE PortValue(_)
PortValue(p) ==
    IF p = <<>> THEN 0
    ELSE 10 * PortValue(SubSeq(p, 1, Len(p) - 1)) + DigitValue(p[Len(p)])

\* SplitResult.port: None (is_none) without a port text, else its value;
\* ValueError for a text that is no number or a number above 65535.
PortOf(netloc) ==
    LET port == PortOfInfo(HostInfo(netloc))
    IN  IF port = <<>> THEN [raised |-> FALSE, is_none |-> TRUE, port |-> 0]
        ELSE IF \E i \in 1..Len(port) : port[i] \notin Digits
             THEN [raised |-> TRUE, is_none |-> TRUE, port |-> 0]
        ELSE IF PortValue(port) > 65535
             THEN [raised |-> TRUE, is_none |-> TRUE, port |-> 0]
        ELSE [raised |-> FALSE, is_none |-> FALSE, port |-> PortValue(port)]

\* feature_extractor.py: parsed_url = url if url.startswith(('http://',
\* 'https://')) else f'http://{url}'
parsed_url(url) ==
    IF StartsWith(url, HttpScheme) \/ StartsWith(url, HttpsScheme) THEN url
    ELSE HttpScheme \o url

\* feature_extractor.py: has_port = 1 if parsed.port is not None else 0,
\* and 0 when the parse or the port raises.
HasPortOf(split) ==
    IF split.raised THEN 0
    ELSE IF PortOf(split.netloc).raised THEN 0
    ELSE IF ~PortOf(split.netloc).is_none THEN 1 ELSE 0

\* The features from the parse: a parse that raises gives 0.
ParsedFeatures(parsed) ==
    [subdomain_count |-> CountSubdomainsOf(parsed),
     hostname_length |-> IF parsed.raised THEN 0 ELSE Len(parsed.hostname)]

\* feature_extractor.py, extract_features after url = url.strip()
ServingFeatures(url) ==
    TextFeatures(url)
    @@ ParsedFeatures(HostnameResult(UrlSplit(parsed_url(url))))
    @@ [has_port |-> HasPortOf(UrlSplit(parsed_url(url)))]

\* feature_extractor.py, URLFeatureExtractor.extract_features
extract_features(url) == ServingFeatures(Strip(url))

EmptyCom ==
    <<"h", "t", "t", "p", ":", "/", "/", "e", "m", "p", "t", "y", ".", "c", "o", "m">>

\* train_model.py: url = str(url).strip(); 'nan' and '' become
\* 'http://empty.com'.
TrainingUrl(url) ==
    IF Strip(url) \in {<<"n", "a", "n">>, <<>>} THEN EmptyCom ELSE Strip(url)

\* train_model.py: has_port = 1 if ':' in url.split('/')[-1] else 0
LastSegmentHasColon(segments) ==
    IF Count(segments[Len(segments)], ":") > 0 THEN 1 ELSE 0

\* train_model.py, extract_features after the url is cleaned: the parse
\* is that of the heuristic engine (url.startswith('http')).
TrainingFeatures(url) ==
    TextFeatures(url)
    @@ ParsedFeatures(ParseHostname(url))
    @@ [has_port |-> LastSegmentHasColon(Split(url, "/"))]

\* train_model.py, URLFeatureExtractor.extract_features
train_extract_features(url) == TrainingFeatures(TrainingUrl(url))

\* train_model.py: the columns of pd.DataFrame(features_list), the keys of
\* the features dict in the order extract_features inserts them.
training_columns ==
    <<"url_length", "dot_count", "at_count", "has_ip", "subdomain_count",
      "hyphen_count", "underscore_count", "slash_count", "question_count",
      "equals_count", "is_https", "hostname_length", "digit_count", "letter_count",
      "has_port", "has_fragment">>

(***************************************************************************)
(* api: the collaborators and the score fusion.                            *)
(***************************************************************************)
\* check_threat_intelligence: what the lookup answers, [raised, hit, reason].
\* The placeholder body always gives the first; a hit and a failure are the
\* other answers of the interface the orchestrator awaits.
StubAnswer ==
    [raised |-> FALSE, hit |-> FALSE,
     reason |-> <<"Not found in threat intelligence databases">>]

ThreatIntelOutcomes ==
    {StubAnswer,
     [raised |-> FALSE, hit |-> TRUE, reason |-> <<"Listed in threat intelligence databases">>],
     [raised |-> TRUE, hit |-> FALSE, reason |-> <<>>]}

\* The classifier layer's run: the step that raised ("none": no step did),
\* the class model.predict answered and the probability (k of ProbDen) that
\* model.predict_proba gave the phishing class.  A value the run never
\* obtained is 0.
ClassifierOutcomes ==
    {[fails |-> f, prediction |-> 0, probability |-> 0] :
        f \in {"extract_features_vector", "predict"}}
    \cup {[fails |-> "predict_proba", prediction |-> p, probability |-> 0] : p \in {0, 1}}
    \cup {[fails |-> f, prediction |-> p, probability |-> k] :
            f \in {"detection_details", "none"}, p \in {0, 1}, k \in 0..ProbDen}

NotLoaded == [fails |-> "not_loaded", prediction |-> 0, probability |-> 0]

\* int(x) of the quotient n / d: truncation toward zero.
IntOf(n, d) == IF n >= 0 THEN n \div d ELSE -((-n) \div d)

\* calculate_risk_score with round() in the place of int().
calculate_risk_score_rounded(heuristic_score, ml_probability, threat_intel_hit) ==
    LET weighted_heuristic == heuristic_score * 4 * ProbDen
        weighted_ml        == (ml_probability * 100) * 4
        weighted_threat    == (IF threat_intel_hit THEN 100 ELSE 0) * 2 * ProbDen
        final_score        == (weighted_heuristic + weighted_ml + weighted_threat
                               + 5 * ProbDen) \div (10 * ProbDen)
        lower              == IF final_score > 0 THEN final_score ELSE 0
    IN  IF lower < 100 THEN lower ELSE 100

\* calculate_risk_score without "weighted_threat *= 0.2" and without the
\* min and max of its return.
calculate_risk_score_unclamped(heuristic_score, ml_probability, threat_intel_hit) ==
    LET weighted_heuristic == heuristic_score * 4 * ProbDen
        weighted_ml        == (ml_probability * 100) * 4
        weighted_threat    == (IF threat_intel_hit THEN 100 ELSE 0) * 10 * ProbDen
    IN  IntOf(weighted_heuristic + weighted_ml + weighted_threat, 10 * ProbDen)

\* calculate_risk_score with the heuristic weight at 0.5.
calculate_risk_score_heavy(heuristic_score, ml_probability, threat_intel_hit) ==
    LET weighted_heuristic == heuristic_score * 5 * ProbDen
        weighted_ml        == (ml_probability * 100) * 4
        weighted_threat    == (IF threat_intel_hit THEN 100 ELSE 0) * 2 * ProbDen
        final_score        == IntOf(weighted_heuristic + weighted_ml + weighted_threat,
                                    10 * ProbDen)
        lower              == IF final_score > 0 THEN final_score ELSE 0
    IN  IF lower < 100 THEN lower ELSE 100

\* calculate_risk_score, in units of 1 / (10 * ProbDen).
calculate_risk_score(heuristic_score, ml_probability, threat_intel_hit) ==
    LET weighted_heuristic == heuristic_score * 4 * ProbDen
        weighted_ml        == (ml_probability * 100) * 4
        weighted_threat    == (IF threat_intel_hit THEN 100 ELSE 0) * 2 * ProbDen
        final_score        == IntOf(weighted_heuristic + weighted_ml + weighted_threat,
                                    10 * ProbDen)
        lower              == IF final_score > 0 THEN final_score ELSE 0
    IN  IF lower < 100 THEN lower ELSE 100

\* is_unsafe with > in the place of >=.
status_of_above(risk_score) == IF risk_score > 50 THEN "unsafe" ELSE "safe"

\* is_unsafe and status
status_of(risk_score) == IF risk_score >= 50 THEN "unsafe" ELSE "safe"

\* The primary detection method: the first branch that matches.
detection_method_of(hit, suspicious, heuristic_score, prediction, probability, is_unsafe) ==
    IF hit THEN "Threat Intelligence"
    ELSE IF suspicious /\ heuristic_score >= 60 THEN "Heuristic Analysis"
    ELSE IF prediction = 1 /\ 10 * probability > 7 * ProbDen THEN "Machine Learning"
    ELSE IF is_unsafe THEN "Combined Analysis"
    ELSE "No threats detected"

\* final_reason with the reasons joined last to first.
compile_reason_reversed(rs) ==
    IF rs # <<>> THEN Join([i \in 1..Len(rs) |-> rs[Len(rs) + 1 - i]], <<"; ">>)
    ELSE <<"URL appears safe based on all detection layers">>

\* final_reason
compile_reason(rs) ==
    IF rs # <<>> THEN Join(rs, <<"; ">>)
    ELSE <<"URL appears safe based on all detection layers">>

\* f"ML Model: {ml_probability*100:.1f}% confidence of phishing": the
\* percentage to one decimal, a tie going to the even digit.
ml_reason(probability) ==
    LET q      == (1000 * probability) \div ProbDen
        r      == (1000 * probability) % ProbDen
        tenths == IF 2 * r > ProbDen \/ (2 * r = ProbDen /\ q % 2 = 1)
                  THEN q + 1 ELSE q
    IN  <<"ML Model: ", ToString(tenths \div 10), ".", ToString(tenths % 10),
          "% confidence of phishing">>

\* A classifier term that stands at one half when no classifier gives it.
default_ml_probability_half == ProbDen \div 2

\* ml_probability = 0.0, the value the classifier term has until a
\* classifier gives one.
default_ml_probability == 0

\* URLFeatureExtractor.__init__: self.feature_names
feature_names ==
    <<"url_length", "dot_count", "at_count", "has_ip", "subdomain_count",
      "hyphen_count", "underscore_count", "slash_count", "question_count",
      "equals_count", "is_https", "hostname_length", "digit_count", "letter_count",
      "has_port", "has_fragment">>

\* The url of the response, were it the form check_url works on.
response_url_normalized(request_url) == Strip(Lower(request_url))

\* url = request.url, and URLScanResponse(url=url, ...)
response_url(request_url) == request_url

\* A call scan_url makes, as it is issued and as it ends.
Called(fn) == [fn |-> fn, ev |-> "call"]

Returned(fn) == [fn |-> fn, ev |-> "return"]

Raised(fn) == [fn |-> fn, ev |-> "raise"]

\* The calls of the classifier layer in a run o, in the order of the code:
\* each is issued when the one before it has returned.
ClassifierCalls(o) ==
    <<Called("extract_features_vector")>>
    \o (IF o.fails = "extract_features_vector" THEN <<Raised("extract_features_vector")>>
        ELSE <<Returned("extract_features_vector"), Called("predict")>>
             \o (IF o.fails = "predict" THEN <<Raised("predict")>>
                 ELSE <<Returned("predict"), Called("predict_proba")>>
                      \o (IF o.fails = "predict_proba" THEN <<Raised("predict_proba")>>
                          ELSE <<Returned("predict_proba")>>)))

(***************************************************************************)
(* The process and one scan_url request.                                   *)
(***************************************************************************)
VARIABLES
    heuristic_engine,         \* the module's HeuristicEngine, as what its check_url
                              \* answers: it is a function of the seed and the url
    feature_extractor,        \* the module's URLFeatureExtractor
    hashSeed,                 \* the process's str hash seed
    model,                    \* the module's model: None or "loaded"
    pc,                       \* where scan_url stands
    url,                      \* request.url
    is_suspicious_heuristic, heuristic_reason, heuristic_score,
    threat_intel_hit, threat_intel_reason,
    ml_probability, ml_prediction,
    detection_details, reasons,
    calls,                    \* the calls of this scan, as issued and as ended
    response,                 \* what the handler returned or raised
    raised_in,                \* the call whose exception the outer except caught
    env,                      \* what the collaborators answered in this scan
    prev,                     \* the scan before this one, when it is repeated,
                              \* and the seed of the process that served it
    replay                    \* this scan repeats prev: same url, same answers

scan == <<url, is_suspicious_heuristic, heuristic_reason, heuristic_score,
          threat_intel_hit, threat_intel_reason, ml_probability, ml_prediction,
          detection_details, reasons, calls, response, raised_in, env>>

vars == <<heuristic_engine, feature_extractor, hashSeed, model, pc, scan, prev, replay>>

Absent == [absent |-> TRUE]

NoResponse == [kind |-> "none"]

\* A failure that still carries a verdict: a status and a risk score.
Http500_unsafe == [kind |-> "http500", status |-> "unsafe", risk_score |-> 100]

\* HTTPException(status_code=500, detail=...): no field of a verdict.
Http500 == [kind |-> "http500"]

NoAnswers == [ti |-> StubAnswer, ml |-> NotLoaded, fusion_fails |-> FALSE]

NoPrev == [url |-> <<>>, env |-> NoAnswers, response |-> NoResponse, seed |-> 0]

\* The locals of scan_url before the handler runs.
Fresh ==
    /\ url = <<>>
    /\ is_suspicious_heuristic = FALSE
    /\ heuristic_reason = <<>>
    /\ heuristic_score = 0
    /\ threat_intel_hit = FALSE
    /\ threat_intel_reason = <<>>
    /\ ml_probability = default_ml_probability
    /\ ml_prediction = 0
    /\ detection_details = [heuristic |-> Absent, threat_intelligence |-> Absent,
                            machine_learning |-> Absent]
    /\ reasons = <<>>
    /\ calls = <<>>
    /\ response = NoResponse
    /\ raised_in = "none"
    /\ env = NoAnswers

\* Module load: the model is loaded when its file is there and loads
\* (None otherwise); the engine's set gets the order of the process's seed.
Init ==
    /\ heuristic_engine = [seed \in HashSeeds |-> [u \in URLS |-> check_url(u, seed)]]
    /\ feature_extractor = [feature_names |-> feature_names]
    /\ hashSeed \in HashSeeds
    /\ model \in {None, "loaded"}
    /\ pc = "idle"
    /\ Fresh
    /\ prev = NoPrev
    /\ replay = FALSE

\* An outer except that runs the failed step again.
Raise_retry(where) ==
    /\ response' = response
    /\ raised_in' = where
    /\ pc' = pc

\* The outer except: HTTPException(500).
Raise(where) ==
    /\ response' = Http500
    /\ raised_in' = where
    /\ pc' = "done"

\* Layer 1: heuristic_engine.check_url and its detail and reason.
HeuristicLayer ==
    /\ pc = "idle"
    /\ \E u \in URLS :
        /\ replay => u = prev.url
        /\ url' = u
        /\ calls' = <<Called("check_url"),
                      IF heuristic_engine[hashSeed][u].raised
                      THEN Raised("check_url") ELSE Returned("check_url")>>
        /\ LET h == heuristic_engine[hashSeed][u]
           IN  IF h.raised
               THEN /\ Raise("check_url")
                    /\ UNCHANGED <<is_suspicious_heuristic, heuristic_reason,
                                   heuristic_score, detection_details, reasons>>
               ELSE /\ is_suspicious_heuristic' = h.is_suspicious
                    /\ heuristic_reason' = h.reason
                    /\ heuristic_score' = h.confidence
                    /\ detection_details' =
                         [detection_details EXCEPT !.heuristic =
                            [suspicious |-> h.is_suspicious, score |-> h.confidence,
                             reason |-> h.reason]]
                    /\ reasons' = IF h.is_suspicious
                                  THEN <<<<"Heuristic: ">> \o h.reason>> ELSE <<>>
                    /\ pc' = "threat_intel"
                    /\ UNCHANGED <<response, raised_in>>
    /\ UNCHANGED <<heuristic_engine, feature_extractor, hashSeed, model,
                   threat_intel_hit, threat_intel_reason,
                   ml_probability, ml_prediction, env, prev, replay>>

\* Layer 2: await check_threat_intelligence(url), outside any inner try.
ThreatIntelLayer ==
    /\ pc = "threat_intel"
    /\ \E o \in ThreatIntelOutcomes :
        /\ replay => o = prev.env.ti
        /\ env' = [env EXCEPT !.ti = o]
        /\ calls' = calls \o <<Called("check_threat_intelligence"),
                                IF o.raised THEN Raised("check_threat_intelligence")
                                ELSE Returned("check_threat_intelligence")>>
        /\ IF o.raised
           THEN /\ Raise("check_threat_intelligence")
                /\ UNCHANGED <<threat_intel_hit, threat_intel_reason,
                               detection_details, reasons>>
           ELSE /\ threat_intel_hit' = o.hit
                /\ threat_intel_reason' = o.reason
                /\ detection_details' =
                     [detection_details EXCEPT !.threat_intelligence =
                        [hit |-> o.hit, reason |-> o.reason]]
                /\ reasons' = IF o.hit
                              THEN Append(reasons, <<"Threat Intel: ">> \o o.reason)
                              ELSE reasons
                /\ pc' = "machine_learning"
                /\ UNCHANGED <<response, raised_in>>
    /\ UNCHANGED <<heuristic_engine, feature_extractor, hashSeed, model,
                   url, is_suspicious_heuristic, heuristic_reason,
                   heuristic_score, ml_probability, ml_prediction, prev, replay>>

\* Layer 3: the classifier, inside its own try; an exception leaves the
\* locals as the statements before it set them.
MachineLearningLayer ==
    /\ pc = "machine_learning"
    /\ IF model = None
       THEN /\ ml_probability' = default_ml_probability
            /\ ml_prediction' = 0
            /\ detection_details' =
                 [detection_details EXCEPT !.machine_learning =
                    [status |-> "Model not loaded"]]
            /\ env' = [env EXCEPT !.ml = NotLoaded]
            /\ UNCHANGED <<reasons, calls>>
       ELSE \E o \in ClassifierOutcomes :
            /\ replay => o = prev.env.ml
            /\ env' = [env EXCEPT !.ml = o]
            /\ calls' = calls \o ClassifierCalls(o)
            /\ ml_prediction' =
                 IF o.fails \in {"extract_features_vector", "predict"}
                 THEN 0 ELSE o.prediction
            /\ ml_probability' =
                 IF o.fails \in {"extract_features_vector", "predict", "predict_proba"}
                 THEN default_ml_probability ELSE o.probability
            /\ detection_details' =
                 [detection_details EXCEPT !.machine_learning =
                    IF o.fails # "none" THEN [error |-> o.fails]
                    ELSE [prediction  |-> o.prediction,
                          probability |-> o.probability,
                          confidence  |-> IF o.probability > ProbDen - o.probability
                                          THEN o.probability
                                          ELSE ProbDen - o.probability]]
            /\ reasons' = IF o.fails = "none" /\ o.prediction = 1
                          THEN Append(reasons, ml_reason(o.probability))
                          ELSE reasons
    /\ pc' = "fusion"
    /\ UNCHANGED <<heuristic_engine, feature_extractor, hashSeed, model,
                   url, is_suspicious_heuristic, heuristic_reason,
                   heuristic_score, threat_intel_hit, threat_intel_reason,
                   response, raised_in, prev, replay>>

\* The risk score, the status, the method, the reason and the response; an
\* unexpected exception here reaches the outer except.
Fusion ==
    /\ pc = "fusion"
    /\ \E fails \in BOOLEAN :
        /\ replay => fails = prev.env.fusion_fails
        /\ env' = [env EXCEPT !.fusion_fails = fails]
        /\ calls' = Append(calls, Called("calculate_risk_score"))
        /\ IF fails
           THEN Raise("fusion")
           ELSE LET risk_score == calculate_risk_score(heuristic_score, ml_probability,
                                                       threat_intel_hit)
                    status     == status_of(risk_score)
                IN  /\ response' =
                         [kind             |-> "verdict",
                          url              |-> response_url(url),
                          status           |-> status,
                          risk_score       |-> risk_score,
                          reason           |-> compile_reason(reasons),
                          detection_method |->
                              detection_method_of(threat_intel_hit,
                                  is_suspicious_heuristic, heuristic_score,
                                  ml_prediction, ml_probability, status = "unsafe"),
                          details          |-> detection_details]
                    /\ pc' = "done"
                    /\ UNCHANGED raised_in
    /\ UNCHANGED <<heuristic_engine, feature_extractor, hashSeed, model,
                   url, is_suspicious_heuristic, heuristic_reason,
                   heuristic_score, threat_intel_hit, threat_intel_reason,
                   ml_probability, ml_prediction, detection_details, reasons,
                   prev, replay>>

\* The locals of the next call of scan_url.
FreshNext ==
    /\ url' = <<>>
    /\ is_suspicious_heuristic' = FALSE
    /\ heuristic_reason' = <<>>
    /\ heuristic_score' = 0
    /\ threat_intel_hit' = FALSE
    /\ threat_intel_reason' = <<>>
    /\ ml_probability' = default_ml_probability
    /\ ml_prediction' = 0
    /\ detection_details' = [heuristic |-> Absent, threat_intelligence |-> Absent,
                             machine_learning |-> Absent]
    /\ reasons' = <<>>
    /\ calls' = <<>>
    /\ response' = NoResponse
    /\ raised_in' = "none"
    /\ env' = NoAnswers

\* The handler has returned; the next request is any request.
NextRequest ==
    /\ pc = "done"
    /\ pc' = "idle"
    /\ FreshNext
    /\ prev' = NoPrev
    /\ replay' = FALSE
    /\ UNCHANGED <<heuristic_engine, feature_extractor, hashSeed, model>>

\* The handler has returned; the next request repeats this one and the
\* collaborators will answer it as they did.
RepeatRequest ==
    /\ pc = "done"
    /\ ~replay
    /\ pc' = "idle"
    /\ FreshNext
    /\ prev' = [url |-> url, env |-> env, response |-> response, seed |-> hashSeed]
    /\ replay' = TRUE
    /\ UNCHANGED <<heuristic_engine, feature_extractor, hashSeed, model>>

\* The server process is restarted between two requests: the module is
\* loaded again (the same model file), under a new hash seed.
Restart ==
    /\ pc = "idle"
    /\ hashSeed' \in HashSeeds
    /\ UNCHANGED <<heuristic_engine, feature_extractor, model, pc, scan, prev, replay>>

Next ==
    \/ HeuristicLayer
    \/ ThreatIntelLayer
    \/ MachineLearningLayer
    \/ Fusion
    \/ NextRequest
    \/ RepeatRequest
    \/ Restart

Spec == Init /\ [][Next]_vars

\* One step of the handler; at each position exactly one of them can be taken.
ScanStep == HeuristicLayer \/ ThreatIntelLayer \/ MachineLearningLayer \/ Fusion

\* The requests of one process after another, each any request; a repeated
\* request is one of them.
LiveNext == ScanStep \/ NextRequest \/ Restart

\* A scan whose steps are each taken when they can be: the handler is run
\* to its end by the event loop, and every call it makes returns or raises.
SpecLive == Init /\ [][LiveNext]_vars /\ WF_vars(ScanStep)

(***************************************************************************)
(* calculate_risk_score called on its own: its arguments are any heuristic *)
(* score of 0..100, any probability of the grid and either flag.           *)
(***************************************************************************)
FuseInit ==
    /\ heuristic_engine = [seed \in HashSeeds |-> [u \in URLS |-> check_url(u, seed)]]
    /\ feature_extractor = [feature_names |-> feature_names]
    /\ hashSeed \in HashSeeds
    /\ model \in {None, "loaded"}
    /\ pc = "calculate_risk_score"
    /\ url = <<>>
    /\ is_suspicious_heuristic = FALSE
    /\ heuristic_reason = <<>>
    /\ heuristic_score \in 0..100
    /\ threat_intel_hit \in BOOLEAN
    /\ threat_intel_reason = <<>>
    /\ ml_probability \in 0..ProbDen
    /\ ml_prediction = 0
    /\ detection_details = [heuristic |-> Absent, threat_intelligence |-> Absent,
                            machine_learning |-> Absent]
    /\ reasons = <<>>
    /\ calls = <<>>
    /\ response = NoResponse
    /\ raised_in = "none"
    /\ env = NoAnswers
    /\ prev = NoPrev
    /\ replay = FALSE

\* The call returns the score.
CalculateRiskScore ==
    /\ pc = "calculate_risk_score"
    /\ response' = [kind       |-> "risk_score",
                    risk_score |-> calculate_risk_score(heuristic_score, ml_probability,
                                                        threat_intel_hit)]
    /\ pc' = "returned"
    /\ UNCHANGED <<heuristic_engine, feature_extractor, hashSeed, model,
                   url, is_suspicious_heuristic,
                   heuristic_reason, heuristic_score, threat_intel_hit,
                   threat_intel_reason, ml_probability, ml_prediction,
                   detection_details, reasons, calls, raised_in, env, prev, replay>>

FuseNext == CalculateRiskScore

SpecFuse == FuseInit /\ [][FuseNext]_vars

\* feature_extractor.py, extract_features_vector: the values in the order
\* of feature_names.
extract_features_vector(request_url) ==
    [i \in 1..Len(feature_names) |-> extract_features(request_url)[feature_names[i]]]

\* A row of the training matrix.
training_vector(request_url) ==
    [i \in 1..Len(training_columns) |-> train_extract_features(request_url)[training_columns[i]]]

(***************************************************************************)
(* The two extractors applied to one url, in either order.                 *)
(***************************************************************************)
NoFeatures == [kind |-> "features", serving |-> Absent, training |-> Absent]

FeaturesInit ==
    /\ heuristic_engine = [seed \in HashSeeds |-> [u \in URLS |-> check_url(u, seed)]]
    /\ feature_extractor = [feature_names |-> feature_names]
    /\ hashSeed \in HashSeeds
    /\ model = "loaded"
    /\ pc = "extract_features"
    /\ url \in FeatureUrls
    /\ is_suspicious_heuristic = FALSE
    /\ heuristic_reason = <<>>
    /\ heuristic_score = 0
    /\ threat_intel_hit = FALSE
    /\ threat_intel_reason = <<>>
    /\ ml_probability = default_ml_probability
    /\ ml_prediction = 0
    /\ detection_details = [heuristic |-> Absent, threat_intelligence |-> Absent,
                            machine_learning |-> Absent]
    /\ reasons = <<>>
    /\ calls = <<>>
    /\ response = NoFeatures
    /\ raised_in = "none"
    /\ env = NoAnswers
    /\ prev = NoPrev
    /\ replay = FALSE

\* The serving extractor: feature_extractor.extract_features_vector(url).
ServingExtract ==
    /\ pc = "extract_features"
    /\ response.serving = Absent
    /\ response' = [response EXCEPT !.serving =
                        [names |-> feature_extractor.feature_names,
                         vector |-> extract_features_vector(url)]]
    /\ UNCHANGED <<heuristic_engine, feature_extractor, hashSeed, model, pc,
                   url, is_suspicious_heuristic,
                   heuristic_reason, heuristic_score, threat_intel_hit,
                   threat_intel_reason, ml_probability, ml_prediction,
                   detection_details, reasons, calls, raised_in, env, prev, replay>>

\* The training extractor on the same url: a row of the training matrix.
TrainingExtract ==
    /\ pc = "extract_features"
    /\ response.training = Absent
    /\ response' = [response EXCEPT !.training =
                        [names |-> training_columns,
                         vector |-> training_vector(url)]]
    /\ UNCHANGED <<heuristic_engine, feature_extractor, hashSeed, model, pc,
                   url, is_suspicious_heuristic,
                   heuristic_reason, heuristic_score, threat_intel_hit,
                   threat_intel_reason, ml_probability, ml_prediction,
                   detection_details, reasons, calls, raised_in, env, prev, replay>>

FeaturesNext == ServingExtract \/ TrainingExtract

SpecFeatures == FeaturesInit /\ [][FeaturesNext]_vars

(***************************************************************************)
(* The claims.                                                             *)
(***************************************************************************)
\* scan_url returned a URLScanResponse.
Verdict == pc = "done" /\ response.kind = "verdict"

\* min(100, max(0, x))
Clamp(x) == IF x < 0 THEN 0 ELSE IF x > 100 THEN 100 ELSE x

\* 0.4*heuristic + 0.4*(probability*100) + 0.2*(100 if hit else 0) of the
\* arguments in the state, as a number of 1 / (10 * ProbDen).
Blend ==
    4 * ProbDen * heuristic_score + 400 * ml_probability
        + (IF threat_intel_hit THEN 200 * ProbDen ELSE 0)

\* C1: for every heuristic confidence in 0..100, every classifier
\* probability (0 standing for an unavailable classifier) and either
\* reputation flag, the score calculate_risk_score returns is the floor f of
\* the weighted blend (f <= blend < f + 1), clamped to 0..100: the fraction
\* is cut, never rounded.
C1_RiskScoreIsFloorOfBlend ==
    pc = "returned" =>
        \E f \in 0..100 :
            /\ f * 10 * ProbDen <= Blend
            /\ Blend < (f + 1) * 10 * ProbDen
            /\ response.risk_score = Clamp(f)

\* C1, its case: a returned score whose blend has a fraction of one half or
\* more, which rounding would have taken up.
C1_Witness ==
    /\ pc = "returned"
    /\ 2 * (Blend % (10 * ProbDen)) >= 10 * ProbDen
    /\ response.risk_score * 10 * ProbDen < Blend

\* C2: in every verdict of scan_url the status is "unsafe" when the risk
\* score is 50 or more and "safe" when it is less; there is no other status.
C2_UnsafeIffRiskAtLeast50 ==
    Verdict =>
        /\ response.status \in {"safe", "unsafe"}
        /\ response.status = "unsafe" <=> response.risk_score >= 50

\* C2, its case: a verdict whose risk score is on the threshold.
C2_Witness == Verdict /\ response.risk_score = 50 /\ response.status = "unsafe"

\* C3: whatever the arguments, heuristic confidence 100 with probability 1
\* and a reputation hit included, calculate_risk_score returns an integer of
\* 0..100.
C3_RiskScoreInRange == pc = "returned" => response.risk_score \in 0..100

\* C3, its case: the three arguments at their largest, the score at 100.
C3_Witness ==
    /\ pc = "returned"
    /\ heuristic_score = 100 /\ ml_probability = ProbDen /\ threat_intel_hit
    /\ response.risk_score = 100

\* The weight check_url adds with each finding, by the text that opens the
\* finding's entry in the reason.
FindingWeight ==
    ("Contains IP address instead of domain name" :> 30)
    @@ ("Suspicious number of subdomains (" :> 20)
    @@ ("Possible typosquatting of " :> 40)
    @@ ("Contains " :> 25)
    @@ ("Contains suspicious keyword" :> 10)
    @@ ("Uses suspicious top-level domain" :> 15)
    @@ ("Contains @ symbol (potential domain masking)" :> 35)
    @@ ("Excessive hyphens (" :> 15)
    @@ ("Unusually long URL" :> 10)
    @@ ("Possible homograph attack (lookalike characters)" :> 30)

\* The sum of the weights of the findings a reason lists.
RECURSIVE WeightOfFindings(_)
WeightOfFindings(reason) ==
    IF reason = <<>> THEN 0
    ELSE (IF Head(reason) \in DOMAIN FindingWeight THEN FindingWeight[Head(reason)] ELSE 0)
         + WeightOfFindings(Tail(reason))

\* C4: the confidence check_url returns is the sum of the weights of the
\* checks that triggered (those its reason lists), cut to 100 after the sum
\* is made; it is never under 0 nor over 100.
C4_ConfidenceIsClampedSum ==
    pc = "threat_intel" =>
        /\ heuristic_score = Clamp(WeightOfFindings(heuristic_reason))
        /\ heuristic_score \in 0..100

\* C4, its case: all nine checks trigger, the weights sum to 220 and the
\* confidence returned is 100.
C4_Witness ==
    /\ pc = "threat_intel"
    /\ WeightOfFindings(heuristic_reason) = 220
    /\ heuristic_score = 100

\* C5: with no model loaded and no reputation hit, the risk score of the
\* verdict is floor(0.4 * heuristic confidence): the classifier's term is 0
\* and the other weights stay as they are.  The score the fusion gives with
\* the term the scan then holds is that floor for every heuristic
\* confidence of 0..100.
C5_NoClassifierNoHitIsFloorOfHeuristic ==
    (Verdict /\ model = None /\ ~threat_intel_hit) =>
        /\ 5 * response.risk_score <= 2 * heuristic_score
        /\ 2 * heuristic_score < 5 * (response.risk_score + 1)
        /\ \A h \in 0..100 :
              LET r == calculate_risk_score(h, ml_probability, threat_intel_hit)
              IN  5 * r <= 2 * h /\ 2 * h < 5 * (r + 1)

\* C5, its case: such a verdict for a URL the heuristic engine scores above
\* zero.
C5_Witness ==
    /\ Verdict /\ model = None /\ ~threat_intel_hit
    /\ heuristic_score >= 40
    /\ response.details.machine_learning = [status |-> "Model not loaded"]

\* The classifier layer ran to its end: a model is loaded and no step of
\* the layer raised.
ClassifierAvailable == model # None /\ env.ml.fails = "none"

\* The rules of the primary method, on the signals of the scan.
Rule1 == threat_intel_hit

Rule2 == is_suspicious_heuristic /\ heuristic_score >= 60

Rule3 == ClassifierAvailable /\ ml_prediction = 1 /\ 10 * ml_probability > 7 * ProbDen

Rule4 == response.status = "unsafe"

\* C6: the primary method of a verdict is that of the first rule that
\* matches, in the order: reputation hit; heuristic suspicious with
\* confidence of 60 or more; classifier available, positive and above 0.7;
\* status unsafe; none of these.
C6_FirstMatchingRuleWins ==
    Verdict =>
        response.detection_method =
            IF Rule1 THEN "Threat Intelligence"
            ELSE IF Rule2 THEN "Heuristic Analysis"
            ELSE IF Rule3 THEN "Machine Learning"
            ELSE IF Rule4 THEN "Combined Analysis"
            ELSE "No threats detected"

\* C6, what the code does: the third rule reads the prediction and the
\* probability the layer left behind, whether or not the layer then failed.
C6_FirstMatchingRuleOfTheCode ==
    Verdict =>
        response.detection_method =
            IF Rule1 THEN "Threat Intelligence"
            ELSE IF Rule2 THEN "Heuristic Analysis"
            ELSE IF ml_prediction = 1 /\ 10 * ml_probability > 7 * ProbDen
                 THEN "Machine Learning"
            ELSE IF Rule4 THEN "Combined Analysis"
            ELSE "No threats detected"

\* C6, its case: the layer failed while building its detail, after a
\* positive prediction above 0.7, and the verdict names Machine Learning.
C6_Witness ==
    /\ Verdict
    /\ env.ml.fails = "detection_details"
    /\ ~Rule1 /\ ~Rule2
    /\ response.detection_method = "Machine Learning"

\* A collaborator raised in this scan.
ReputationFailed == env.ti.raised

ClassifierFailed == model # None /\ env.ml.fails \notin {"none", "not_loaded"}

\* C7: an exception of the classifier or of the reputation lookup does not
\* abort the scan: scan_url returns a verdict, the detail of the failing
\* layer is an error note, and the layer counts as unavailable (no hit, a
\* classifier term of 0).
C7_CollaboratorFailureNeverAborts ==
    (pc = "done" /\ (ReputationFailed \/ ClassifierFailed) /\ ~env.fusion_fails) =>
        /\ response.kind = "verdict"
        /\ ReputationFailed =>
              /\ "error" \in DOMAIN response.details.threat_intelligence
              /\ ~threat_intel_hit
        /\ ClassifierFailed =>
              /\ "error" \in DOMAIN response.details.machine_learning
              /\ ml_probability = 0

\* C7, what the code does: an exception of the reputation lookup reaches
\* the outer except and the request fails; one of the classifier is caught
\* in the layer, which records an error note, and the scan goes on.
C7_OnlyClassifierFailureIsCaught ==
    /\ (pc = "done" /\ ReputationFailed) =>
           response = Http500 /\ raised_in = "check_threat_intelligence"
    /\ (pc = "done" /\ ClassifierFailed /\ ~env.fusion_fails) =>
           /\ response.kind = "verdict"
           /\ response.details.machine_learning = [error |-> env.ml.fails]

\* C7, its case: the reputation lookup raised and the request ended with
\* the request-level error.
C7_Witness == pc = "done" /\ ReputationFailed /\ response = Http500

\* C8: check_url never raises to its caller, whatever the string: no scan
\* ends in the outer except because of it.
C8_CheckUrlNeverRaises == pc = "done" => raised_in # "check_url"

\* C8, what the code does: check_url raises only for a URL that holds a
\* character above 127 and that urlparse rejects; the parse failure of an
\* ASCII URL is caught in the subdomain count and in the typosquatting
\* check, and the other checks give their findings.
C8_RaisesOnlyOnNonAsciiUnparsable ==
    /\ raised_in = "check_url" =>
          /\ \E i \in 1..Len(Strip(Lower(url))) : Strip(Lower(url))[i] \in NonAscii
          /\ ParseHostname(Strip(Lower(url))).raised
    /\ (pc = "threat_intel" /\ url = U_bracket) =>
          heuristic_reason = <<"No suspicious patterns detected">>

\* C8, its case: the scan of a URL with an unbalanced bracket and a
\* non-ASCII letter ends with the exception of check_url.
C8_Witness == pc = "done" /\ raised_in = "check_url" /\ response = Http500

\* Two parts of a reason, joined by "; " when both are there.
Sep(a, b) == IF a = <<>> THEN b ELSE IF b = <<>> THEN a ELSE a \o <<"; ">> \o b

\* The classifier predicted the positive class.
ClassifierPositive == ClassifierAvailable /\ ml_prediction = 1

\* C9: the reason of a verdict is, in this order, the heuristic reasons
\* when and only when the heuristic result is suspicious, the reputation
\* reason when and only when the lookup hit, and the classifier's
\* confidence statement when and only when the classifier predicted
\* positive; with none of the three it is the fixed message.
C9_ReasonIsOrderedConcatenation ==
    Verdict =>
        LET heuristic_part  == IF is_suspicious_heuristic
                               THEN <<"Heuristic: ">> \o heuristic_reason ELSE <<>>
            reputation_part == IF threat_intel_hit
                               THEN <<"Threat Intel: ">> \o threat_intel_reason ELSE <<>>
            classifier_part == IF ClassifierPositive
                               THEN ml_reason(ml_probability) ELSE <<>>
            parts           == Sep(Sep(heuristic_part, reputation_part), classifier_part)
        IN  response.reason =
                IF parts = <<>>
                THEN <<"URL appears safe based on all detection layers">>
                ELSE parts

\* C9, its case: a verdict to which all three parts apply.
C9_Witness ==
    /\ Verdict
    /\ is_suspicious_heuristic /\ threat_intel_hit /\ ClassifierPositive
    /\ Len(response.reason) > Len(heuristic_reason) + Len(threat_intel_reason) + 2

\* C10: a scan that repeats an earlier one (the same URL, the same
\* configuration, the same answers of the collaborators) returns the same
\* status, risk score, primary method, reason and details, the protected
\* domain named included, whatever the iteration order of the set.
C10_RepeatedScanSameVerdict ==
    (pc = "done" /\ replay) => response = prev.response

\* C10, what the code does: the repeated scan returns the same response
\* when the process that serves it iterates the set in the same order.
C10_SameVerdictUnderSameOrder ==
    (pc = "done" /\ replay /\ prev.seed = hashSeed) => response = prev.response

\* C10, its case: the process was restarted between the two scans, the set
\* iterates in another order, and the repeated scan names another domain.
C10_Witness ==
    /\ pc = "done" /\ replay
    /\ prev.seed # hashSeed
    /\ response.kind = "verdict" /\ prev.response.kind = "verdict"
    /\ response.details.heuristic.reason # prev.response.details.heuristic.reason
    /\ response.risk_score = prev.response.risk_score


\* A finding of check_url: the text that opens its entry is in the reason.
HasFinding(reason, label) == \E i \in 1..Len(reason) : reason[i] = label

\* The finding of the typosquatting check that names a protected domain.
NamesTarget(reason, domain) ==
    \E i \in 1..(Len(reason) - 1) :
        reason[i] = "Possible typosquatting of " /\ reason[i + 1] = domain

\* check_url has returned for the URL u and its result is in the locals.
Checked(u) == pc = "threat_intel" /\ url = u

\* C11: for paypal-verify.tk the typosquatting check reports the
\* impersonation of paypal.com (+40); with the suspicious TLD .tk the
\* confidence is 40 or more and the heuristic result is suspicious.
C11_PaypalVerifyImpersonatesPaypal ==
    Checked(U_paypalverify) =>
        /\ NamesTarget(heuristic_reason, "paypal.com")
        /\ HasFinding(heuristic_reason, "Uses suspicious top-level domain")
        /\ heuristic_score >= 40
        /\ is_suspicious_heuristic

\* C11, what the code does: the whole of "paypal-verify.tk" is compared
\* with each protected domain and is similar to none; the keyword "verify"
\* and the TLD give 25, and the result is not suspicious.
C11_PaypalVerifyIsNotMatched ==
    Checked(U_paypalverify) =>
        /\ ~HasFinding(heuristic_reason, "Possible typosquatting of ")
        /\ heuristic_reason = <<"Contains suspicious keyword", "; ",
                                "Uses suspicious top-level domain">>
        /\ heuristic_score = 25
        /\ ~is_suspicious_heuristic

\* C11, its case: check_url has returned for paypal-verify.tk, with a
\* confidence under the threshold.
C11_Witness == Checked(U_paypalverify) /\ heuristic_score < 40

\* The reason of a URL whose only findings are the IP literal and one
\* suspicious keyword.
IpAndOneKeyword ==
    <<"Contains IP address instead of domain name", "; ", "Contains suspicious keyword">>

\* C12: a URL whose only triggered checks are the IP literal (+30) and one
\* suspicious keyword (+10) has confidence 40 and is suspicious, the
\* threshold being inclusive; http://192.168.1.1/login is such a URL: its
\* dotted-quad host triggers neither the subdomain check nor the
\* typosquatting check, and its reason has the IP finding.
C12_IpAndOneKeywordIsSuspiciousAt40 ==
    /\ (pc = "threat_intel" /\ heuristic_reason = IpAndOneKeyword) =>
           heuristic_score = 40 /\ is_suspicious_heuristic
    /\ \A u \in {U_iplogin, U_ipsignin} :
           Checked(u) =>
               /\ heuristic_reason = IpAndOneKeyword
               /\ count_subdomains(Strip(Lower(u))) = 2
               /\ ~HasFinding(heuristic_reason, "Suspicious number of subdomains (")
               /\ ~HasFinding(heuristic_reason, "Possible typosquatting of ")

\* C12, its case: check_url has returned for http://192.168.1.1/login with
\* the confidence on the threshold.
C12_Witness ==
    /\ Checked(U_iplogin)
    /\ HasFinding(heuristic_reason, "Contains IP address instead of domain name")
    /\ heuristic_score = 40
    /\ is_suspicious_heuristic

\* The last two labels of the hostname of u, as check_url parses it, are a
\* member of the protected-domain set.
ProtectedDomain(parsed) ==
    /\ ~parsed.raised
    /\ \E d \in legitimate_domains :
          Chars[d] = RegistrableDomain(parsed.hostname, Split(parsed.hostname, "."))

HasProtectedDomain(u) == ProtectedDomain(ParseHostname(Strip(Lower(u))))

\* C13: a URL whose registrable domain is a member of the protected-domain
\* set is never reported as typosquatting, whatever its subdomains;
\* https://www.google.com triggers no check, has confidence 0, is not
\* suspicious, and its status is safe when the reputation lookup does not
\* hit and the classifier does not predict positive.
C13_ProtectedDomainIsNeverTyposquatting ==
    /\ (pc = "threat_intel"
           /\ HasFinding(heuristic_reason, "Possible typosquatting of ")) =>
           ~HasProtectedDomain(url)
    /\ Checked(U_google) =>
           /\ heuristic_reason = <<"No suspicious patterns detected">>
           /\ heuristic_score = 0
           /\ ~is_suspicious_heuristic
    /\ (Verdict /\ url = U_google /\ ~threat_intel_hit /\ ~ClassifierPositive) =>
           response.status = "safe"

\* C13, its case: the verdict of https://www.google.com, a protected
\* domain under a subdomain, with a quiet lookup and a classifier that
\* predicted the negative class.
C13_Witness ==
    /\ Verdict /\ url = U_google
    /\ HasProtectedDomain(U_google) /\ HasProtectedDomain(U_sub_paypal)
    /\ ~threat_intel_hit /\ ClassifierAvailable /\ ml_prediction = 0
    /\ response.details.heuristic.score = 0
    /\ response.status = "safe"

\* The character @ is somewhere in the URL submitted.
HasAt(u) == \E i \in 1..Len(u) : u[i] = "@"

MaskingLabel == "Contains @ symbol (potential domain masking)"

\* C14: every URL that holds a @ gets a heuristic confidence of 35 or more
\* and the domain-masking label among its reasons, whatever the other
\* checks find.
C14_AtSignAlwaysScores ==
    (pc # "idle" /\ HasAt(url)) =>
        /\ raised_in # "check_url"
        /\ heuristic_score >= 35
        /\ HasFinding(heuristic_reason, MaskingLabel)

\* C14, what the code does: the @ check adds its 35 and its label, and
\* they are in the result when check_url returns one; the homograph check
\* that follows can raise, and then the URL gets no confidence at all.
C14_AtSignScoresWhenCheckUrlReturns ==
    (pc # "idle" /\ HasAt(url)) =>
        \/ raised_in = "check_url" /\ response = Http500
        \/ /\ raised_in # "check_url"
           /\ heuristic_score >= 35
           /\ HasFinding(heuristic_reason, MaskingLabel)

\* C14, its case: a URL with a @, a non-ASCII letter and an unbalanced
\* bracket, whose scan ends with the exception of check_url.
C14_Witness ==
    /\ pc = "done" /\ url = U_at_bracket_cyr /\ HasAt(url)
    /\ raised_in = "check_url"
    /\ heuristic_score = 0 /\ heuristic_reason = <<>>

\* The largest sum the nine weights can reach, before the cap.
MaxRawConfidence == 30 + 20 + 40 + 25 + 15 + 35 + 15 + 10 + 30

\* C15: for every URL the suspicious flag check_url returns is true when
\* and only when the confidence it returns, the capped one, is 40 or more;
\* so it is for every sum the weights can reach.
C15_SuspiciousIffConfidenceAtLeast40 ==
    pc = "threat_intel" =>
        /\ is_suspicious_heuristic <=> heuristic_score >= 40
        /\ \A raw \in 0..MaxRawConfidence :
              is_suspicious(cap_confidence(raw)) <=> cap_confidence(raw) >= 40

\* C15, its case: a confidence just under the threshold, returned with a
\* flag that is false.
C15_Witness ==
    /\ pc = "threat_intel"
    /\ heuristic_score = 35
    /\ ~is_suspicious_heuristic
    /\ detection_details.heuristic.suspicious = FALSE

\* The places of the scan's calls where an event stands.
Places(events) == {i \in 1..Len(calls) : calls[i] \in events}

\* Every event of es1 in the calls stands before every event of es2 in
\* them, and both are there.
AllBefore(es1, es2) ==
    /\ Places(es1) # {} /\ Places(es2) # {}
    /\ \A i \in Places(es1) : \A j \in Places(es2) : i < j

\* The reputation call and the classifier's calls, as issued and as ended;
\* the classifier's run ends with the first of its calls that raises or
\* with the return of the last.
ReputationStart == {Called("check_threat_intelligence")}

ReputationEnd ==
    {Returned("check_threat_intelligence"), Raised("check_threat_intelligence")}

ClassifierStart == {Called("extract_features_vector")}

ClassifierEnd ==
    {Raised("extract_features_vector"), Raised("predict"), Raised("predict_proba"),
     Returned("predict_proba")}

FusionStart == {Called("calculate_risk_score")}

\* C16: in a scan the classifier call and the reputation call are issued
\* concurrently, neither being started after the other has ended, and the
\* fusion starts only when both have ended.
C16_CallsIssuedConcurrently ==
    (Places(ReputationStart) # {} /\ Places(ClassifierStart) # {}) =>
        /\ ~AllBefore(ReputationEnd, ClassifierStart)
        /\ ~AllBefore(ClassifierEnd, ReputationStart)
        /\ Places(FusionStart) # {} =>
              AllBefore(ReputationEnd, FusionStart) /\ AllBefore(ClassifierEnd, FusionStart)

\* C16, what the code does: the reputation call is awaited to its end
\* before the classifier's first call is issued, and the fusion starts
\* after both have ended.
C16_CallsIssuedInSequence ==
    /\ Places(ClassifierStart) # {} =>
          /\ AllBefore(ReputationStart, ReputationEnd)
          /\ AllBefore(ReputationEnd, ClassifierStart)
          /\ AllBefore(ClassifierStart, ClassifierEnd)
    /\ Places(FusionStart) # {} =>
          /\ AllBefore(ReputationEnd, FusionStart)
          /\ model # None => AllBefore(ClassifierEnd, FusionStart)

\* C16, its case: a scan with a model loaded has reached its verdict; the
\* classifier was first called when the reputation call had returned.
C16_Witness ==
    /\ Verdict /\ model # None
    /\ AllBefore({Returned("check_threat_intelligence")}, ClassifierStart)
    /\ AllBefore(ClassifierEnd, FusionStart)

\* C17: a scan writes no shared state: over any number of scans, in any
\* order, the engine (its protected domains, confusable map, keywords and
\* TLDs, through what check_url answers), the model reference and the
\* feature-name list stay as module load left them; and the url of a
\* response is the URL submitted, not the lower-cased, trimmed form
\* check_url works on.
C17_ScanWritesNoSharedState ==
    /\ [][/\ heuristic_engine' = heuristic_engine
          /\ model' = model
          /\ feature_extractor' = feature_extractor]_vars
    /\ [](feature_extractor.feature_names = feature_names)
    /\ [](Verdict => response.url = url /\ url \in URLS)

\* C17, its case: the second of two scans of a URL with capitals and
\* spaces around it has returned, and its response carries that URL as
\* submitted.
C17_Witness ==
    /\ Verdict /\ replay
    /\ url = U_upper
    /\ Strip(Lower(url)) # url
    /\ response.url = U_upper
    /\ heuristic_engine[hashSeed][url].confidence = heuristic_score

\* The layers of a scan, by the call that opens each.
HeuristicInvoked == Places({Called("check_url")}) # {}

ReputationInvoked == Places(ReputationStart) # {}

ClassifierInvoked == Places(ClassifierStart) # {}

\* The three per-layer entries of a response's details are there.
AllDetails(details) ==
    /\ details.heuristic # Absent
    /\ details.threat_intelligence # Absent
    /\ details.machine_learning # Absent

\* C18: no layer's outcome gates another layer: in every scan the
\* heuristic layer, the reputation layer and (with a model loaded) the
\* classifier layer are each invoked, whatever the other layers gave, and
\* every response returned has a detail entry for each of the three layers.
C18_NoLayerGatesAnother ==
    pc = "done" =>
        /\ HeuristicInvoked
        /\ ReputationInvoked
        /\ model # None => ClassifierInvoked
        /\ response.kind = "verdict" => AllDetails(response.details)

\* C18, what the code does: whatever a layer returns, the layers after it
\* run, and a verdict has the three detail entries; a layer is skipped only
\* when check_url or the reputation lookup has raised before it, and the
\* request then fails.
C18_OnlyAnExceptionSkipsALayer ==
    pc = "done" =>
        /\ HeuristicInvoked
        /\ ReputationInvoked <=> raised_in # "check_url"
        /\ model # None =>
              (ClassifierInvoked <=>
                  raised_in \notin {"check_url", "check_threat_intelligence"})
        /\ response.kind = "verdict" => AllDetails(response.details)
        /\ raised_in \in {"check_url", "check_threat_intelligence"} => response = Http500

\* C18, its case: a model is loaded, the reputation lookup raised, and the
\* scan ended without the classifier having been called.
C18_Witness ==
    /\ pc = "done" /\ model # None
    /\ HeuristicInvoked /\ ReputationInvoked /\ ~ClassifierInvoked
    /\ raised_in = "check_threat_intelligence"

\* C19: an unexpected failure during the fusion or the assembly of the
\* response is reported as a failure of the request (HTTP 500), which is
\* no "unsafe" classification, and no part of a verdict, status or risk
\* score, goes with it.
C19_FusionFailureIsRequestFailure ==
    (pc = "done" /\ env.fusion_fails) =>
        /\ response.kind = "http500"
        /\ raised_in = "fusion"
        /\ DOMAIN response \cap {"status", "risk_score", "detection_method", "details"} = {}

\* C19, its case: the three layers have run, for a URL the heuristics find
\* suspicious, and the fusion failed.
C19_Witness ==
    /\ pc = "done" /\ env.fusion_fails
    /\ is_suspicious_heuristic
    /\ AllDetails(detection_details)
    /\ response = Http500

\* No reason of the scan is the classifier's confidence statement.
NoClassifierReason == \A i \in 1..Len(reasons) : reasons[i][1] # "ML Model: "

\* C20: when the classifier layer fails at any point (feature extraction,
\* predict, predict_proba, the building of its detail) it is degraded to
\* unavailable: its detail is only an error note, it adds 0 to the risk
\* score, no classifier reason is added, and the Machine Learning rule of
\* the primary method cannot fire.
C20_ClassifierFailureDegradesFully ==
    (pc \in {"fusion", "done"} /\ ClassifierFailed) =>
        /\ DOMAIN detection_details.machine_learning = {"error"}
        /\ ml_probability = 0
        /\ NoClassifierReason
        /\ Verdict =>
              /\ response.risk_score =
                    calculate_risk_score(heuristic_score, 0, threat_intel_hit)
              /\ response.detection_method # "Machine Learning"

\* C20, what the code does: the detail becomes an error note and no reason
\* is added, but prediction and probability stay as the statements before
\* the failure set them: a failure up to the reading of the probability
\* leaves the term at 0, a later one leaves the classifier's probability in
\* the risk score and in the rule of the primary method.
C20_DegradedUpToTheFailingStep ==
    (pc \in {"fusion", "done"} /\ ClassifierFailed) =>
        /\ detection_details.machine_learning = [error |-> env.ml.fails]
        /\ NoClassifierReason
        /\ env.ml.fails \in {"extract_features_vector", "predict", "predict_proba"} =>
              /\ ml_probability = 0
              /\ Verdict => response.detection_method # "Machine Learning"
        /\ env.ml.fails = "detection_details" =>
              /\ ml_probability = env.ml.probability
              /\ ml_prediction = env.ml.prediction
              /\ Verdict =>
                    response.risk_score =
                        calculate_risk_score(heuristic_score, env.ml.probability,
                                             threat_intel_hit)

\* C20, its case: the layer failed while building its detail, and the
\* probability it had read raises the risk score of the verdict over what
\* the other two layers give, up to an unsafe status.
C20_Witness ==
    /\ Verdict /\ ClassifierFailed
    /\ env.ml.fails = "detection_details"
    /\ response.details.machine_learning = [error |-> "detection_details"]
    /\ response.risk_score > calculate_risk_score(heuristic_score, 0, threat_intel_hit)
    /\ response.status = "unsafe"
    /\ calculate_risk_score(heuristic_score, 0, threat_intel_hit) < 50

TldLabel == "Uses suspicious top-level domain"

\* The hostname check_url parses from the URL submitted ("" when the parse
\* fails) ends with one of the suspicious TLDs.
HostnameEndsWithTld(parsed) ==
    \E i \in 1..Len(suspicious_tlds) : EndsWith(parsed.hostname, suspicious_tlds[i])

HostHasSuspiciousTld(u) == HostnameEndsWithTld(ParseHostname(Strip(Lower(u))))

\* C21: the suspicious-TLD check triggers when and only when the hostname
\* of the URL ends with a suspicious TLD: it triggers for such a hostname
\* whatever port, path, query or fragment follows, and not when only the
\* path or another part outside the host ends with or holds the suffix.
C21_TldCheckReadsTheHostname ==
    pc = "threat_intel" =>
        (HasFinding(heuristic_reason, TldLabel) <=> HostHasSuspiciousTld(url))

\* C21, what the code does: the check reads the whole URL: it triggers
\* when the URL ends with a suspicious TLD or holds one followed by "/".
C21_TldCheckReadsTheWholeUrl ==
    pc = "threat_intel" =>
        (HasFinding(heuristic_reason, TldLabel) <=>
            \E i \in 1..Len(suspicious_tlds) :
                \/ EndsWith(Strip(Lower(url)), suspicious_tlds[i])
                \/ Contains(Strip(Lower(url)), suspicious_tlds[i] \o <<"/">>))

\* C21, its case: the host evil.tk followed by a port does not trigger
\* the check, while the host example.com with the path /a.tk does.
C21_Witness ==
    /\ Checked(U_porttld)
    /\ HostHasSuspiciousTld(U_porttld)
    /\ ~HasFinding(heuristic_reason, TldLabel)
    /\ ~HostHasSuspiciousTld(U_pathtld)
    /\ HasFinding(heuristic_engine[hashSeed][U_pathtld].reason, TldLabel)

\* The URL, as check_url works on it, has no scheme.
Schemeless(u) == ~Contains(u, <<":", "/", "/">>)

\* The results of the three checks that read the hostname.
HostnameChecks(u, seed) ==
    [subdomain_count |-> count_subdomains(u),
     typo_result     |-> check_typosquatting(u, seed),
     homograph       |-> check_homograph(u)]

\* The checks' results for a URL with no hostname.
NoHostname ==
    [subdomain_count |-> 0, typo_result |-> None,
     homograph |-> [raised |-> FALSE, result |-> FALSE]]

\* C22: a URL with no scheme is parsed as if it began with http://: the
\* subdomain count, the typosquatting check and the homograph check give
\* for it what they give for http:// followed by it, also when its host
\* begins with the letters "http".
C22_SchemelessParsedAsHttp ==
    (pc = "threat_intel" /\ Schemeless(Strip(Lower(url)))) =>
        HostnameChecks(Strip(Lower(url)), hashSeed)
            = HostnameChecks(HttpScheme \o Strip(Lower(url)), hashSeed)

\* C22, what the code does: the prefix is added when the URL does not
\* begin with the letters "http"; a URL with no scheme that begins with
\* them is parsed as it is, has no hostname, and the three checks find
\* nothing.
C22_PrefixedUnlessItBeginsWithHttp ==
    (pc = "threat_intel" /\ Schemeless(Strip(Lower(url)))) =>
        HostnameChecks(Strip(Lower(url)), hashSeed)
            = IF StartsWith(Strip(Lower(url)), HttpPrefix) THEN NoHostname
              ELSE HostnameChecks(HttpScheme \o Strip(Lower(url)), hashSeed)

\* C22, its case: httpbin.org.evil.example.tk has three subdomains when
\* parsed behind http://, and check_url has returned none for it.
C22_Witness ==
    /\ Checked(U_httpbin)
    /\ Schemeless(U_httpbin)
    /\ count_subdomains(HttpScheme \o U_httpbin) = 3
    /\ ~HasFinding(heuristic_reason, "Suspicious number of subdomains (")
    /\ check_typosquatting(HttpScheme \o U_http_cyr, hashSeed) = "apple.com"
    /\ check_typosquatting(U_http_cyr, hashSeed) = None

\* The confusable map, as a function of the character.
ConfusableMap ==
    [c \in {"0", "1", "3", "5", "8", "@", "$"} |->
        CASE c = "0" -> "o" [] c = "1" -> "i" [] c = "3" -> "e" [] c = "5" -> "s"
          [] c = "8" -> "b" [] c = "@" -> "a" [] c = "$" -> "s"]

\* A name with each of its characters taken through the confusable map.
Substituted(name) ==
    [i \in 1..Len(name) |->
        IF name[i] \in DOMAIN ConfusableMap THEN ConfusableMap[name[i]] ELSE name[i]]

\* The last two labels of a hostname: what follows its last dot but one;
\* the whole hostname when it has fewer than two dots.
LastTwoLabels(hostname) ==
    LET dots == {i \in 1..Len(hostname) : hostname[i] = "."}
        last == CHOOSE i \in dots : \A j \in dots : j <= i
        rest == dots \ {last}
    IN  IF Cardinality(dots) < 2 THEN hostname
        ELSE SubSeq(hostname, (CHOOSE i \in rest : \A j \in rest : j <= i) + 1,
                    Len(hostname))

\* The protected domain a name spells, None when it spells none.
ProtectedNamed(name) ==
    IF \E d \in legitimate_domains : Chars[d] = name
    THEN CHOOSE d \in legitimate_domains : Chars[d] = name
    ELSE None

\* What C23 asks of the result for a parsed hostname.
SubstitutionMatches(parsed, reason) ==
    (/\ ~parsed.raised
     /\ ProtectedNamed(LastTwoLabels(parsed.hostname)) = None
     /\ ProtectedNamed(Substituted(LastTwoLabels(parsed.hostname))) # None) =>
        NamesTarget(reason, ProtectedNamed(Substituted(LastTwoLabels(parsed.hostname))))

\* g00gle.com, p@ypal.com and 38ay.com, as registrable domains.
D_g00gle == <<"g", "0", "0", "g", "l", "e", ".", "c", "o", "m">>

D_at_paypal == <<"p", "@", "y", "p", "a", "l", ".", "c", "o", "m">>

D_ebay == <<"3", "8", "a", "y", ".", "c", "o", "m">>

\* C23: the matcher takes the last two labels of the hostname as the
\* registrable domain (the whole hostname when it has fewer than two); when
\* that domain is not protected but is a protected domain after the
\* character-for-character substitution of the confusable map, the matcher
\* reports that protected domain, and it does so before any similarity is
\* computed (g00gle.com, whose ratio to google.com is only 0.8, is
\* reported).  Checked on the first scan of each URL in each process.
C23_SubstitutionMatchNamesTheTarget ==
    (pc = "threat_intel" /\ ~replay) =>
        /\ SubstitutionMatches(ParseHostname(Strip(Lower(url))), heuristic_reason)
        /\ url = U_g00gle =>
              /\ ~SimilarityAbove80(D_g00gle, Chars["google.com"])
              /\ MatchNormalized(D_g00gle, hashSeed) = "google.com"
              /\ MatchNormalized(D_at_paypal, hashSeed) = "paypal.com"
              /\ MatchNormalized(D_ebay, hashSeed) = "ebay.com"
              /\ \A u \in URLS :
                    ~ParseHostname(Strip(Lower(u))).raised =>
                        LET h == ParseHostname(Strip(Lower(u))).hostname
                        IN  RegistrableDomain(h, Split(h, ".")) = LastTwoLabels(h)

\* C23, its case: g00gle.com, no protected domain and not similar enough
\* to one, is reported as the impersonation of google.com.
C23_Witness ==
    /\ Checked(U_g00gle)
    /\ heuristic_reason = <<"Possible typosquatting of ", "google.com">>
    /\ NamesTarget(heuristic_engine[hashSeed][U_dollar].reason, "microsoft.com")
    /\ heuristic_engine[hashSeed][U_localhost].confidence = 0

\* The matching characters of a name and a protected domain, and twice
\* their number against 0.8 of the two lengths: the ratio is above 0.8, or
\* is 0.8.
Matches(name, d) == MatchCount(name, Chars[d], 1, Len(name) + 1, 1, Len(Chars[d]) + 1)

Exceeds80(name, d) == 10 * Matches(name, d) > 4 * (Len(name) + Len(Chars[d]))

Exactly80(name, d) == 10 * Matches(name, d) = 4 * (Len(name) + Len(Chars[d]))

\* The places, in the iteration order of the process, of the protected
\* domains whose ratio to the name is above 0.8.
PlacesAbove80(name, order) == {i \in 1..Len(order) : Exceeds80(name, order[i])}

\* What C24 asks of the reason for the registrable domain name.
SimilarityDecides(name, order, above, reason) ==
    (ProtectedNamed(name) = None /\ ProtectedNamed(Substituted(name)) = None) =>
        IF above = {} THEN ~HasFinding(reason, "Possible typosquatting of ")
        ELSE NamesTarget(reason, order[CHOOSE i \in above : \A j \in above : i <= j])

SimilarityDecidesFor(parsed, order, reason) ==
    ~parsed.raised =>
        SimilarityDecides(LastTwoLabels(parsed.hostname), order,
                          PlacesAbove80(LastTwoLabels(parsed.hostname), order), reason)

\* C24: when neither the exact match nor the match after substitution
\* applies, a protected domain is reported when and only when its ratio to
\* the registrable domain is strictly above 0.80 (gaagle.com, at exactly
\* 0.80 of google.com, is no match); of several above the threshold the
\* first in the iteration order of the set is reported, which need not be
\* the closest; with none above it there is no impersonation.  Checked on
\* the first scan of each URL in each process.
C24_FirstDomainAbove80IsReported ==
    (pc = "threat_intel" /\ ~replay) =>
        /\ SimilarityDecidesFor(ParseHostname(Strip(Lower(url))),
                                IterationOrder(hashSeed), heuristic_reason)
        /\ url = U_gaagle =>
              /\ Exactly80(U_gaagle, "google.com")
              /\ ~HasFinding(heuristic_reason, "Possible typosquatting of ")

\* C24, its case: apl.com is above 0.8 of paypal.com and of apple.com and
\* closer to apple.com; the process iterates paypal.com first and reports
\* it.
C24_Witness ==
    /\ Checked(U_apl) /\ ~replay
    /\ PlacesAbove80(U_apl, IterationOrder(hashSeed)) # {}
    /\ Exceeds80(U_apl, "paypal.com") /\ Exceeds80(U_apl, "apple.com")
    /\ Matches(U_apl, "apple.com") * (Len(U_apl) + Len(Chars["paypal.com"]))
          > Matches(U_apl, "paypal.com") * (Len(U_apl) + Len(Chars["apple.com"]))
    /\ NamesTarget(heuristic_reason, "paypal.com")

\* A check of check_url on a URL: whether it triggers, its weight and its
\* entry in the reasons.
Finding(on, weight, entry) == [on |-> on, weight |-> weight, entry |-> entry]

\* The nine checks, each evaluated on the URL by itself, in the order 1
\* (IP) to 9 (homograph).
NineChecks(u, subdomains, target, keywords, hyphens, homograph) ==
    <<Finding(has_ip_address(u), 30, <<"Contains IP address instead of domain name">>),
      Finding(subdomains >= 3, 20,
              <<"Suspicious number of subdomains (", ToString(subdomains), ")">>),
      Finding(target # None, 40, <<"Possible typosquatting of ", target>>),
      Finding(keywords >= 1, IF keywords >= 2 THEN 25 ELSE 10,
              IF keywords >= 2
              THEN <<"Contains ", ToString(keywords), " suspicious keywords">>
              ELSE <<"Contains suspicious keyword">>),
      Finding(has_suspicious_tld(u), 15, <<TldLabel>>),
      Finding(HasAt(u), 35, <<MaskingLabel>>),
      Finding(hyphens >= 4, 15, <<"Excessive hyphens (", ToString(hyphens), ")">>),
      Finding(Len(u) > 100, 10, <<"Unusually long URL">>),
      Finding(homograph.result, 30, <<"Possible homograph attack (lookalike characters)">>)>>

NineChecksOf(u, seed) ==
    NineChecks(u, count_subdomains(u), check_typosquatting(u, seed),
               count_suspicious_keywords(u), Count(u, "-"), check_homograph(u))

\* The weights of the checks of a set of places, summed from the last
\* place to the first.
RECURSIVE SumFromLast(_, _)
SumFromLast(checks, places) ==
    IF places = {} THEN 0
    ELSE LET k == CHOOSE i \in places : \A j \in places : j <= i
         IN  checks[k].weight + SumFromLast(checks, places \ {k})

\* What C25 asks of the result for the nine checks of a URL.
AllChecksScored(checks, reason, confidence) ==
    LET triggered == {k \in 1..Len(checks) : checks[k].on}
        entries   == [k \in 1..Len(SelectSeq(checks, LAMBDA f : f.on)) |->
                         SelectSeq(checks, LAMBDA f : f.on)[k].entry]
    IN  /\ Len(checks) = 9
        /\ confidence = Clamp(SumFromLast(checks, triggered))
        /\ reason = IF triggered = {} THEN <<"No suspicious patterns detected">>
                    ELSE Join(entries, <<"; ">>)

\* C25: every call of check_url evaluates all nine checks, a check that
\* triggers never keeping a later one from being evaluated and scored; the
\* score is the same in whatever order the weights are added; the reason
\* lists the labels of exactly the checks that triggered, in the order 1
\* (IP) to 9 (homograph), or is "No suspicious patterns detected".
\* Checked on the first scan of each URL in each process.
C25_AllNineChecksScoredInOrder ==
    (pc = "threat_intel" /\ ~replay) =>
        AllChecksScored(NineChecksOf(Strip(Lower(url)), hashSeed),
                        heuristic_reason, heuristic_score)

\* C25, its case: a URL that triggers the first check and the fourth and
\* none between, and one that triggers all nine.
C25_Witness ==
    /\ Checked(U_ipsignin) /\ ~replay
    /\ heuristic_reason = IpAndOneKeyword
    /\ Len(heuristic_engine[hashSeed][U_allnine].reason) = 24
    /\ heuristic_engine[hashSeed][U_google].reason = <<"No suspicious patterns detected">>

HomographLabel == "Possible homograph attack (lookalike characters)"

\* The characters of the scanned URLs outside the printable ASCII range:
\* those above 127 and the control character DEL.
OutsidePrintableAscii == NonAscii \cup {"U+007F"}

HostnameHasOneOf(parsed, chars) ==
    \E i \in 1..Len(parsed.hostname) : parsed.hostname[i] \in chars

\* C26: the homograph check triggers when and only when the hostname has
\* a character outside the printable ASCII range; such characters in the
\* path, the query or the userinfo alone do not trigger it.
C26_HomographIffHostnameNotPrintableAscii ==
    (pc = "threat_intel" /\ ~replay) =>
        (HasFinding(heuristic_reason, HomographLabel)
            <=> HostnameHasOneOf(ParseHostname(Strip(Lower(url))), OutsidePrintableAscii))

\* C26, what the code does: the check triggers when and only when the
\* hostname has a character above 127; a control character in it does not
\* trigger the check.
C26_HomographIffHostnameAbove127 ==
    (pc = "threat_intel" /\ ~replay) =>
        (HasFinding(heuristic_reason, HomographLabel)
            <=> HostnameHasOneOf(ParseHostname(Strip(Lower(url))), NonAscii))

\* C26, its case: a hostname with the control character DEL in it, for
\* which check_url has returned no finding.
C26_Witness ==
    /\ Checked(U_del) /\ ~replay
    /\ HostnameHasOneOf(ParseHostname(U_del), {"U+007F"})
    /\ heuristic_reason = <<"No suspicious patterns detected">>
    /\ ~HasFinding(heuristic_engine[hashSeed][U_cyr_path].reason, HomographLabel)
    /\ ~HasFinding(heuristic_engine[hashSeed][U_userinfo].reason, HomographLabel)
    /\ HasFinding(heuristic_engine[hashSeed][U_cyr_apple].reason, HomographLabel)

DefaultReason == <<"URL appears safe based on all detection layers">>

\* The class the classifier predicted agrees with its probability:
\* positive when and only when the probability is above 0.5.
PredictionAgrees == (ml_prediction = 1) <=> (2 * ml_probability > ProbDen)

\* C28: when the classifier's prediction agrees with its probability, a
\* verdict with the status "unsafe" never has the default reason "URL
\* appears safe based on all detection layers" nor the primary method "No
\* threats detected".
C28_UnsafeIsNeverUnexplained ==
    (Verdict /\ PredictionAgrees /\ response.status = "unsafe") =>
        /\ response.reason # DefaultReason
        /\ response.detection_method # "No threats detected"

\* C28, what the code does: an unsafe verdict never has the method "No
\* threats detected", and it has a reason unless the classifier layer
\* failed after it had read its probability: then the probability is in
\* the score and no classifier reason was added.
C28_UnexplainedOnlyAfterClassifierFailure ==
    (Verdict /\ PredictionAgrees /\ response.status = "unsafe") =>
        /\ response.detection_method # "No threats detected"
        /\ is_suspicious_heuristic \/ threat_intel_hit \/ ml_prediction = 1
        /\ response.reason = DefaultReason =>
              /\ env.ml.fails = "detection_details"
              /\ response.details.machine_learning = [error |-> "detection_details"]
              /\ ~is_suspicious_heuristic /\ ~threat_intel_hit

\* C28, its case: an unsafe verdict with the default reason; the
\* classifier predicted positive with a probability that agrees, and its
\* layer failed while building its detail.
C28_Witness ==
    /\ Verdict /\ PredictionAgrees
    /\ response.status = "unsafe"
    /\ response.reason = DefaultReason
    /\ response.detection_method = "Machine Learning"

\* No call of the scan was issued twice.
NoCallRepeated ==
    \A i, j \in 1..Len(calls) : (calls[i] = calls[j] /\ calls[i].ev = "call") => i = j

\* The handler has produced its one outcome: a complete verdict or the
\* request-level failure.
OneOutcome ==
    \/ /\ response.kind = "verdict"
       /\ DOMAIN response = {"kind", "url", "status", "risk_score", "reason",
                             "detection_method", "details"}
       /\ AllDetails(response.details)
    \/ response = Http500

\* C29: every scan terminates: each call of a collaborator returning or
\* raising, scan_url comes to exactly one outcome, a complete verdict or a
\* request-level failure; it calls no collaborator twice and retries
\* nothing.
C29_EveryScanTerminates ==
    /\ (pc = "idle") ~> (pc = "done")
    /\ [](pc = "done" => OneOutcome)
    /\ [](pc # "done" => response = NoResponse)
    /\ []NoCallRepeated

\* C29, its case: a scan in which every call was made and returned has
\* ended with its verdict.
C29_Witness ==
    /\ pc = "done" /\ response.kind = "verdict"
    /\ model # None /\ env.ml.fails = "none"
    /\ Len(calls) = 11
    /\ NoCallRepeated

\* Both extractors have been applied to the url.
BothExtracted ==
    /\ response.kind = "features"
    /\ response.serving # Absent
    /\ response.training # Absent

\* The features whose serving value is not the training value.
Differing ==
    {feature_names[i] : i \in {j \in 1..Len(feature_names) :
                                 response.serving.vector[j] # response.training.vector[j]}}

\* The training extractor read the url itself, not 'http://empty.com'.
TrainedOnTheUrl == Strip(url) \notin {<<"n", "a", "n">>, <<>>}

\* Both extractors parse the same text: the url has a scheme http:// or
\* https://, or does not begin with 'http' at all.
SameParsedText ==
    \/ StartsWith(Strip(url), HttpScheme)
    \/ StartsWith(Strip(url), HttpsScheme)
    \/ ~StartsWith(Strip(url), HttpPrefix)

\* C30 as stated: for every non-empty URL the serving extractor and the
\* training extractor give the same 16 feature names in the same order
\* with the same value for each feature, has_port, subdomain_count and
\* hostname_length included.
C30_ServingMatchesTraining ==
    BothExtracted =>
        /\ response.serving.names = response.training.names
        /\ Len(response.serving.names) = 16
        /\ response.serving.vector = response.training.vector

\* C30, what the code does: the names and their order are the same; the
\* values computed from the text of the url are the same when the training
\* extractor read the url itself; subdomain_count and hostname_length are
\* the same when moreover both parse the same text; has_port is the port
\* of the parse in serving and a colon in the last path segment in
\* training, and the two differ.
C30_ExtractorsAgreeOnTextFeatures ==
    BothExtracted =>
        /\ response.serving.names = response.training.names
        /\ Len(response.serving.names) = 16
        /\ Len(response.serving.vector) = 16 /\ Len(response.training.vector) = 16
        /\ TrainedOnTheUrl =>
               Differing \subseteq {"has_port", "subdomain_count", "hostname_length"}
        /\ (TrainedOnTheUrl /\ SameParsedText) => Differing \subseteq {"has_port"}
        /\ url \in {U_porttld, U_ipv6, F_colon_path, F_port_range} =>
               "has_port" \in Differing
        /\ url \in {U_httpbin, U_http_cyr} =>
               Differing = {"subdomain_count", "hostname_length"}

\* C30, its case: a URL with a port and a path, whose has_port is 1 in
\* serving and 0 in training.
C30_Witness ==
    /\ BothExtracted
    /\ url = U_porttld
    /\ response.serving.vector[15] = 1
    /\ response.training.vector[15] = 0
    /\ feature_names[15] = "has_port"
=============================================================================
